---- MODULE Spec2Model ----
(***************************************************************************)
(* Model of packer-post-processor-vagrant-s3: the manifest of a versioned  *)
(* Vagrant box (manifest.go) and the publish operation PostProcess that    *)
(* uploads a box to S3 and merges it into the manifest.                    *)
(*                                                                         *)
(* Go strings are modelled as tuples of one-character strings, so that     *)
(* parsing and formatting of semantic versions are real conversions.       *)
(***************************************************************************)
EXTENDS Integers, Sequences, FiniteSets, TLC

VARIABLES
    manifest,   \* the *Manifest the methods of manifest.go are called on
    before,     \* the value of that manifest when the last call started
    call,       \* the last call made on it: method, arguments and results
    s3Manifest, \* the object stored at the manifest key of the bucket
    s3Boxes,    \* the box objects of the bucket, by key
    inv,        \* the PostProcess invocations: position, locals, outcome
    started,    \* the number of PostProcess invocations started so far
    config,     \* p.config: the settings Configure left in the PostProcessor
    s3Meta,     \* the ACL, storage class and content type of the objects
    up          \* the upload of the box by the PostProcess with the part loop

unitVars == <<manifest, before, call>>

pubVars == <<s3Manifest, s3Boxes, inv, started, config, s3Meta>>

vars == <<manifest, before, call, s3Manifest, s3Boxes, inv, started, config, s3Meta,
          up>>

----------------------------------------------------------------------------
(* Strings                                                                 *)

Range(s) == {s[i] : i \in 1..Len(s)}

\* the characters of "0123456789", the set `numbers` of the semver package
numbers == <<"0", "1", "2", "3", "4", "5", "6", "7", "8", "9">>

\* the characters that occur in the strings of the model, with their byte
\* values (Go compares strings bytewise)
Byte ==
    [c \in Range(numbers) \cup {"+", "-", ".", "_", "a", "b"} |->
        CASE c = "+" -> 43
          [] c = "-" -> 45
          [] c = "." -> 46
          [] c = "_" -> 95
          [] c = "a" -> 97
          [] c = "b" -> 98
          [] OTHER -> 47 + (CHOOSE i \in 1..10 : numbers[i] = c)]

\* the set `alphanum` of the semver package, cut to the model's characters
alphanum == (Range(numbers) \cup {"a", "b", "-"})

\* containsOnly(s, set): no character of s lies outside set
containsOnly(s, set) == \A i \in 1..Len(s) : s[i] \in set

\* hasLeadingZeroes(s)
hasLeadingZeroes(s) == Len(s) > 1 /\ s[1] = "0"

\* strings.IndexRune(s, c), 1-based, 0 when c does not occur
IndexRune(s, c) ==
    IF \E i \in 1..Len(s) : s[i] = c
    THEN CHOOSE i \in 1..Len(s) : s[i] = c /\ \A j \in 1..(i - 1) : s[j] # c
    ELSE 0

\* strings.Split(s, sep) for a one-character separator
RECURSIVE Split(_, _)
Split(s, sep) ==
    LET i == IndexRune(s, sep) IN
    IF i = 0 THEN <<s>>
    ELSE <<SubSeq(s, 1, i - 1)>> \o Split(SubSeq(s, i + 1, Len(s)), sep)

\* strings.SplitN(s, sep, n): at most n parts, the last one unsplit
RECURSIVE SplitN(_, _, _)
SplitN(s, sep, n) ==
    LET i == IndexRune(s, sep) IN
    IF n <= 1 \/ i = 0 THEN <<s>>
    ELSE <<SubSeq(s, 1, i - 1)>> \o SplitN(SubSeq(s, i + 1, Len(s)), sep, n - 1)

\* the digits of 18446744073709551615 = 2^64 - 1, the greatest uint64
MaxUint64Digits ==
    <<"1", "8", "4", "4", "6", "7", "4", "4", "0", "7", "3", "7", "0", "9", "5", "5",
      "1", "6", "1", "5">>

\* a uint64 is kept as its 64 bits read in two's complement: the small
\* numbers are themselves and 2^64 - 1 is -1, so that n + 1 wraps as in Go
MaxUint64 == -1

\* strconv.ParseUint(s, 10, 64) of a string of digits
RECURSIVE ParseUint(_)
ParseUint(s) ==
    IF s = MaxUint64Digits THEN MaxUint64
    ELSE IF Len(s) = 0 THEN 0
    ELSE 10 * ParseUint(SubSeq(s, 1, Len(s) - 1)) + (Byte[s[Len(s)]] - 48)

\* strconv.FormatUint(n, 10)
RECURSIVE FormatUint(_)
FormatUint(n) ==
    IF n = MaxUint64 THEN MaxUint64Digits
    ELSE IF n < 10 THEN <<numbers[n + 1]>>
    ELSE FormatUint(n \div 10) \o <<numbers[(n % 10) + 1]>>

\* a > b for two uint64
Greater64(a, b) ==
    IF (a < 0) = (b < 0) THEN a > b ELSE a < 0

\* a < b for Go strings: bytewise lexicographic
RECURSIVE StrLess(_, _)
StrLess(a, b) ==
    IF Len(b) = 0 THEN FALSE
    ELSE IF Len(a) = 0 THEN TRUE
    ELSE IF a[1] # b[1] THEN Byte[a[1]] < Byte[b[1]]
    ELSE StrLess(Tail(a), Tail(b))

\* strings.Join(parts, sep)
RECURSIVE Join(_, _)
Join(parts, sep) ==
    IF Len(parts) = 0 THEN <<>>
    ELSE IF Len(parts) = 1 THEN parts[1]
    ELSE parts[1] \o sep \o Join(Tail(parts), sep)

----------------------------------------------------------------------------
(* github.com/blang/semver v3.5.1, as manifest.go uses it                  *)

\* semver.Version{}: the zero value
ZeroVersion == [Major |-> 0, Minor |-> 0, Patch |-> 0, Pre |-> <<>>, Build |-> <<>>]

\* semver.NewPRVersion(s): [ok, pr]
NewPRVersion(s) ==
    IF Len(s) = 0 THEN [ok |-> FALSE]
    ELSE IF containsOnly(s, Range(numbers)) THEN
        IF hasLeadingZeroes(s) THEN [ok |-> FALSE]
        ELSE [ok |-> TRUE,
              pr |-> [VersionStr |-> <<>>, VersionNum |-> ParseUint(s), IsNum |-> TRUE]]
    ELSE IF containsOnly(s, alphanum) THEN
        [ok |-> TRUE, pr |-> [VersionStr |-> s, VersionNum |-> 0, IsNum |-> FALSE]]
    ELSE [ok |-> FALSE]

\* a numeric component of major.minor.patch: digits only, no leading zero
NumOk(s) == Len(s) > 0 /\ containsOnly(s, Range(numbers)) /\ ~hasLeadingZeroes(s)

\* semver.Make(s) (= semver.Parse): [err, v]; err is TRUE when s is no
\* semantic version, and v is then the zero Version
Make(s) ==
    LET parts == SplitN(s, ".", 3)
        bad   == [err |-> TRUE, v |-> ZeroVersion]
    IN
    IF Len(s) = 0 THEN bad
    ELSE IF Len(parts) # 3 THEN bad
    ELSE IF ~NumOk(parts[1]) \/ ~NumOk(parts[2]) THEN bad
    ELSE
        LET buildIndex == IndexRune(parts[3], "+")
            build      == IF buildIndex # 0
                          THEN Split(SubSeq(parts[3], buildIndex + 1, Len(parts[3])), ".")
                          ELSE <<>>
            patchStr1  == IF buildIndex # 0
                          THEN SubSeq(parts[3], 1, buildIndex - 1)
                          ELSE parts[3]
            preIndex   == IndexRune(patchStr1, "-")
            prerelease == IF preIndex # 0
                          THEN Split(SubSeq(patchStr1, preIndex + 1, Len(patchStr1)), ".")
                          ELSE <<>>
            patchStr   == IF preIndex # 0
                          THEN SubSeq(patchStr1, 1, preIndex - 1)
                          ELSE patchStr1
        IN
        IF ~NumOk(patchStr) THEN bad
        ELSE IF \E i \in 1..Len(prerelease) : ~NewPRVersion(prerelease[i]).ok THEN bad
        ELSE IF \E i \in 1..Len(build) :
                    Len(build[i]) = 0 \/ ~containsOnly(build[i], alphanum) THEN bad
        ELSE [err |-> FALSE,
              v   |-> [Major |-> ParseUint(parts[1]),
                       Minor |-> ParseUint(parts[2]),
                       Patch |-> ParseUint(patchStr),
                       Pre   |-> [i \in 1..Len(prerelease) |-> NewPRVersion(prerelease[i]).pr],
                       Build |-> build]]

\* PRVersion.String()
PRString(pr) == IF pr.IsNum THEN FormatUint(pr.VersionNum) ELSE pr.VersionStr

\* Version.String()
String(v) ==
    FormatUint(v.Major) \o <<".">> \o FormatUint(v.Minor) \o <<".">> \o FormatUint(v.Patch)
    \o (IF Len(v.Pre) > 0
        THEN <<"-">> \o Join([i \in 1..Len(v.Pre) |-> PRString(v.Pre[i])], <<".">>)
        ELSE <<>>)
    \o (IF Len(v.Build) > 0
        THEN <<"+">> \o Join(v.Build, <<".">>)
        ELSE <<>>)

\* PRVersion.Compare(o): -1, 0 or 1
PRCompare(v, o) ==
    IF v.IsNum /\ ~o.IsNum THEN -1
    ELSE IF ~v.IsNum /\ o.IsNum THEN 1
    ELSE IF v.IsNum /\ o.IsNum THEN
        (IF v.VersionNum = o.VersionNum THEN 0
         ELSE IF Greater64(v.VersionNum, o.VersionNum) THEN 1 ELSE -1)
    ELSE
        (IF v.VersionStr = o.VersionStr THEN 0
         ELSE IF StrLess(o.VersionStr, v.VersionStr) THEN 1 ELSE -1)

\* the loop of Version.Compare over the pre-release identifiers, from index i
RECURSIVE PreCompareFrom(_, _, _)
PreCompareFrom(vp, op, i) ==
    IF i <= Len(vp) /\ i <= Len(op) THEN
        LET comp == PRCompare(vp[i], op[i]) IN
        IF comp = 0 THEN PreCompareFrom(vp, op, i + 1) ELSE comp
    ELSE IF i = Len(vp) + 1 /\ i = Len(op) + 1 THEN 0
    ELSE IF i = Len(vp) + 1 /\ i < Len(op) + 1 THEN -1
    ELSE 1

\* Version.Compare(o): -1, 0 or 1; build metadata is not looked at
Compare(v, o) ==
    IF v.Major # o.Major THEN (IF Greater64(v.Major, o.Major) THEN 1 ELSE -1)
    ELSE IF v.Minor # o.Minor THEN (IF Greater64(v.Minor, o.Minor) THEN 1 ELSE -1)
    ELSE IF v.Patch # o.Patch THEN (IF Greater64(v.Patch, o.Patch) THEN 1 ELSE -1)
    ELSE IF Len(v.Pre) = 0 /\ Len(o.Pre) = 0 THEN 0
    ELSE IF Len(v.Pre) = 0 /\ Len(o.Pre) > 0 THEN 1
    ELSE IF Len(v.Pre) > 0 /\ Len(o.Pre) = 0 THEN -1
    ELSE PreCompareFrom(v.Pre, o.Pre, 1)

\* Version.LT(o)
LT(v, o) == Compare(v, o) = -1

----------------------------------------------------------------------------
(* manifest.go                                                             *)

\* const NoVersion = "0.0.0"
NoVersion == <<"0", ".", "0", ".", "0">>

\* &Manifest{Name: name}
EmptyManifest(name) == [Name |-> name, Versions |-> <<>>]

\* the inner loop of add: some provider of Version w has the name
HasProvider(w, name) == \E j \in 1..Len(w.Providers) : w.Providers[j].Name = name

\* the outer loop of add: the first Version entry whose Version is version,
\* 0 when there is none
FindVersion(m, version) ==
    IF \E i \in 1..Len(m.Versions) : m.Versions[i].Version = version
    THEN CHOOSE i \in 1..Len(m.Versions) :
            /\ m.Versions[i].Version = version
            /\ \A j \in 1..(i - 1) : m.Versions[j].Version # version
    ELSE 0

\* add with the stored provider replaced on a name collision instead of the
\* error return
add_overwrite(m, version, provider) ==
    LET i == FindVersion(m, version) IN
    IF i # 0 THEN
        IF HasProvider(m.Versions[i], provider.Name)
        THEN [err |-> "nil",
              m   |-> [m EXCEPT !.Versions[i].Providers =
                          [j \in 1..Len(@) |->
                              IF @[j].Name = provider.Name THEN provider ELSE @[j]]]]
        ELSE [err |-> "nil",
              m   |-> [m EXCEPT !.Versions[i].Providers = Append(@, provider)]]
    ELSE [err |-> "nil",
          m   |-> [m EXCEPT !.Versions =
                      Append(@, [Version |-> version, Providers |-> <<provider>>])]]

\* add without the `return nil` after the append to an existing Version: the
\* call falls through and appends a new Version as well
add_fallthrough(m, version, provider) ==
    LET i == FindVersion(m, version) IN
    IF i # 0 /\ HasProvider(m.Versions[i], provider.Name)
    THEN [err |-> "exists", m |-> m]
    ELSE [err |-> "nil",
          m   |-> [m EXCEPT !.Versions =
                      Append(IF i # 0
                             THEN [@ EXCEPT ![i].Providers = Append(@, provider)]
                             ELSE @,
                             [Version |-> version, Providers |-> <<provider>>])]]

\* add without the scan of the providers for a name collision
add_nocheck(m, version, provider) ==
    LET i == FindVersion(m, version) IN
    IF i # 0 THEN
        [err |-> "nil",
         m   |-> [m EXCEPT !.Versions[i].Providers = Append(@, provider)]]
    ELSE [err |-> "nil",
          m   |-> [m EXCEPT !.Versions =
                      Append(@, [Version |-> version, Providers |-> <<provider>>])]]

\* add with a new Version entry put in front of the others
add_prepend(m, version, provider) ==
    LET i == FindVersion(m, version) IN
    IF i # 0 THEN
        IF HasProvider(m.Versions[i], provider.Name)
        THEN [err |-> "exists", m |-> m]
        ELSE [err |-> "nil",
              m   |-> [m EXCEPT !.Versions[i].Providers = Append(@, provider)]]
    ELSE [err |-> "nil",
          m   |-> [m EXCEPT !.Versions =
                      <<[Version |-> version, Providers |-> <<provider>>]>> \o @]]

\* Manifest.add(version, provider): [err, m], m the manifest after the call
add(m, version, provider) ==
    LET i == FindVersion(m, version) IN
    IF i # 0 THEN
        IF HasProvider(m.Versions[i], provider.Name)
        THEN [err |-> "exists", m |-> m]
        ELSE [err |-> "nil",
              m   |-> [m EXCEPT !.Versions[i].Providers = Append(@, provider)]]
    ELSE [err |-> "nil",
          m   |-> [m EXCEPT !.Versions =
                      Append(@, [Version |-> version, Providers |-> <<provider>>])]]

\* the loop of getLatestVersion over m.Versions[i..], latestVersion so far
RECURSIVE LatestFrom(_, _, _)
LatestFrom(m, i, latestVersion) ==
    IF i > Len(m.Versions) THEN latestVersion
    ELSE
        LET currentVersion == Make(m.Versions[i].Version) IN
        IF currentVersion.err THEN LatestFrom(m, i + 1, latestVersion)
        ELSE IF LT(latestVersion, currentVersion.v)
             THEN LatestFrom(m, i + 1, currentVersion.v)
             ELSE LatestFrom(m, i + 1, latestVersion)

\* the loop with every parseable entry assigned, without the comparison
RECURSIVE LatestFrom_last(_, _, _)
LatestFrom_last(m, i, latestVersion) ==
    IF i > Len(m.Versions) THEN latestVersion
    ELSE
        LET currentVersion == Make(m.Versions[i].Version) IN
        IF currentVersion.err THEN LatestFrom_last(m, i + 1, latestVersion)
        ELSE LatestFrom_last(m, i + 1, currentVersion.v)

\* the loop with LTE in place of LT: an equal entry replaces the latest
RECURSIVE LatestFrom_lte(_, _, _)
LatestFrom_lte(m, i, latestVersion) ==
    IF i > Len(m.Versions) THEN latestVersion
    ELSE
        LET currentVersion == Make(m.Versions[i].Version) IN
        IF currentVersion.err THEN LatestFrom_lte(m, i + 1, latestVersion)
        ELSE IF Compare(latestVersion, currentVersion.v) <= 0
             THEN LatestFrom_lte(m, i + 1, currentVersion.v)
             ELSE LatestFrom_lte(m, i + 1, latestVersion)

getLatestVersion_last(m) == String(LatestFrom_last(m, 1, Make(NoVersion).v))

getLatestVersion_lte(m) == String(LatestFrom_lte(m, 1, Make(NoVersion).v))

\* Manifest.getLatestVersion()
getLatestVersion(m) == String(LatestFrom(m, 1, Make(NoVersion).v))

\* getNextVersion without `latestVersion.Patch = 0`
getNextVersion_keepPatch(m) ==
    LET latestVersion == Make(getLatestVersion(m)).v IN
    String([latestVersion EXCEPT !.Minor = @ + 1])

\* Manifest.getNextVersion()
getNextVersion(m) ==
    LET latestVersion == Make(getLatestVersion(m)).v IN
    String([latestVersion EXCEPT !.Minor = @ + 1, !.Patch = 0])

----------------------------------------------------------------------------
(* Bounds and input sets                                                   *)

\* an add call of SpecAdd is made only on a manifest with fewer providers
\* than this
MaxEntries == 4

\* an add call of SpecVersion is made only on a manifest with fewer entries
\* than this
MaxVersionEntries == 3

\* p.config.BoxName
BoxName == "my-cool-project"

\* the number of providers in a manifest
RECURSIVE CountProviders(_, _)
CountProviders(m, i) ==
    IF i > Len(m.Versions) THEN 0
    ELSE Len(m.Versions[i].Providers) + CountProviders(m, i + 1)

\* version strings of the add calls of SpecAdd
AddVersions ==
    { <<"1", ".", "0", ".", "0">>,
      <<"1", ".", "1", ".", "0">>,
      <<"1", ".", "0">> }

\* the vagrant provider names of the model
ProviderNames == {"virtualbox", "vmware_desktop"}

\* &Provider{...} values of the add calls of SpecAdd
AddProviders ==
    {p \in [Name : ProviderNames, Url : {"u1", "u2"},
            ChecksumType : {"sha256"}, Checksum : {"c1", "c2"}] :
        <<p.Url, p.Checksum>> \in {<<"u1", "c1">>, <<"u2", "c1">>, <<"u2", "c2">>}}

NoProvider == [Name |-> "", Url |-> "", ChecksumType |-> "", Checksum |-> ""]

NoCall == [op |-> "none", version |-> <<>>, provider |-> NoProvider,
           err |-> "nil", result |-> <<>>]

----------------------------------------------------------------------------
(* The bucket and the configuration of PostProcess                         *)

\* the PostProcess invocations of the model
Procs == {"p1", "p2"}

\* PostProcess invocations started in one behaviour
MaxPublishes == 3

\* p.config.ManifestPath, p.config.BoxDir, p.config.Region, p.config.Bucket:
\* the same in every configuration of the model
ManifestPath == <<"vagrant", "manifest.json">>

BoxDir == "vagrant/boxes"

Region == "us-east-1"

Bucket == "my-s3-bucket"

\* the settings of p.config that differ between configurations, none of them
\* set in the template
ZeroConfig == [SignedExpiry |-> 0, CloudFront |-> "", ACL |-> "", StorageClass |-> ""]

\* a Configure that fills in no default
Configure_noDefaults(c) == c

\* Configure: the defaults of the settings that were left empty
Configure(c) ==
    [c EXCEPT !.ACL = IF @ = "" THEN "public-read" ELSE @,
              !.StorageClass = IF @ = "" THEN "STANDARD" ELSE @]

\* p.config after Configure of a template that sets none of them
DefaultConfig == Configure(ZeroConfig)

\* no object of the bucket has attributes yet
NoMeta == [boxes |-> <<>>, manifest |-> [ACL |-> "", ContentType |-> ""]]

\* the attributes uploader.Upload gives the box object at key
UploadMeta(meta, c, key) ==
    [meta EXCEPT !.boxes = (key :> [ACL |-> c.ACL, StorageClass |-> c.StorageClass]) @@ @]

\* the attributes putManifest gives the manifest object
ManifestMeta(meta, c) ==
    [meta EXCEPT !.manifest = [ACL |-> c.ACL, ContentType |-> "application/json"]]

\* the manifest key holds no object
NoObject == [exists |-> FALSE, body |-> [name |-> "", versions |-> [null |-> TRUE, items |-> <<>>]]]

\* json.NewEncoder(&buf).Encode(v) of a []*Provider / []*Version: a nil
\* slice is written as null
EncodeProviders(ps) ==
    [null  |-> ps = <<>>,
     items |-> [j \in 1..Len(ps) |->
                   [name |-> ps[j].Name, url |-> ps[j].Url,
                    checksum_type |-> ps[j].ChecksumType,
                    checksum |-> ps[j].Checksum]]]

\* json.NewEncoder(&buf).Encode(manifest): the JSON document of a Manifest,
\* with the keys of the json tags
Encode(m) ==
    [name     |-> m.Name,
     versions |-> [null  |-> m.Versions = <<>>,
                   items |-> [i \in 1..Len(m.Versions) |->
                                 [version   |-> m.Versions[i].Version,
                                  providers |-> EncodeProviders(m.Versions[i].Providers)]]]]

\* a decoding that finds no "providers" key in the Version objects
Decode_noProviders(doc) ==
    [Name     |-> doc.name,
     Versions |-> IF doc.versions.null THEN <<>>
                  ELSE [i \in 1..Len(doc.versions.items) |->
                           [Version   |-> doc.versions.items[i].version,
                            Providers |-> <<>>]]]

\* json.NewDecoder(body).Decode(manifest) into &Manifest{}
Decode(doc) ==
    [Name     |-> doc.name,
     Versions |-> IF doc.versions.null THEN <<>>
                  ELSE [i \in 1..Len(doc.versions.items) |->
                           LET w == doc.versions.items[i] IN
                           [Version   |-> w.version,
                            Providers |-> IF w.providers.null THEN <<>>
                                          ELSE [j \in 1..Len(w.providers.items) |->
                                                   LET q == w.providers.items[j] IN
                                                   [Name |-> q.name, Url |-> q.url,
                                                    ChecksumType |-> q.checksum_type,
                                                    Checksum |-> q.checksum]]]]]

\* generateS3Url(region, bucket, cloudFront, key)
generateS3Url(region, bucket, cloudFront, key) ==
    IF cloudFront # ""
    THEN [form |-> "cloudfront", host |-> cloudFront, bucket |-> "", key |-> key, expiry |-> 0]
    ELSE IF region = "us-east-1"
    THEN [form |-> "s3", host |-> "s3.amazonaws.com", bucket |-> bucket, key |-> key,
          expiry |-> 0]
    ELSE [form |-> "s3", host |-> "s3-" \o region \o ".amazonaws.com", bucket |-> bucket,
          key |-> key, expiry |-> 0]

\* boxObject.Presign(p.config.SignedExpiry)
Presign(bucket, key, expiry) ==
    [form |-> "presigned", host |-> "s3.amazonaws.com", bucket |-> bucket, key |-> key,
     expiry |-> expiry]

NoUrl == [form |-> "", host |-> "", bucket |-> "", key |-> <<>>, expiry |-> 0]

\* providerFromBuilderName(name)
providerFromBuilderName(name) ==
    CASE name = "aws" -> "aws"
      [] name = "digitalocean" -> "digitalocean"
      [] name = "virtualbox" -> "virtualbox"
      [] name = "vmware" -> "vmware_desktop"
      [] name = "parallels" -> "parallels"
      [] OTHER -> name

\* hex.EncodeToString(h.Sum(nil)) of sha256 over the bytes: one digest per
\* content
sum256(content) == "sha256:" \o content

\* fmt.Sprintf("%s/%s/%s", p.config.BoxDir, version, path.Base(box))
BoxPath(version, box) == <<BoxDir, version, box.base>>

\* a local file path, as directory and base name with its extension
NoFile == [dir |-> "", base |-> "", ext |-> ""]

\* no earlier publish that failed after its upload
NoPrev == [failedAt |-> "", cfgVersion |-> <<>>, provider |-> "", base |-> "",
           startManifest |-> NoObject]

\* the locals of an invocation that has not started; builderId and files are
\* the artifact it was called with, fetched is the manifest getManifest
\* returned at the fetch step, gets are the answers of its GetObject calls,
\* prev is the outcome of the invocation before it
IdleInv ==
    [pc |-> "idle", provider |-> "", box |-> NoFile, cfgVersion |-> <<>>,
     version |-> <<>>, checksum |-> "", content |-> "",
     manifest |-> EmptyManifest(""), url |-> NoUrl,
     err |-> "nil", failedAt |-> "", artifact |-> NoUrl,
     trace |-> <<>>, calls |-> <<>>,
     startManifest |-> NoObject, startBoxes |-> <<>>,
     builderId |-> "", files |-> <<>>, fetched |-> EmptyManifest(""),
     gets |-> <<>>, prev |-> NoPrev]

\* const chunkSize of the part loop, in bytes
chunkSize == 5 * 1024 * 1024

\* the size above which PostProcess uploads in parts: 100*1024*1024 bytes
multipartThreshold == 100 * 1024 * 1024

\* the retries the part loop allows: `errorCount < 10`
maxErrorCount == 10

\* the seconds of time.Sleep before a retry
retryDelay == 5

\* s3.Part{}: the zero value PutPart returns with an error; from and read
\* tell where in the file the bytes of a part came from and whether
\* file.Read had filled the buffer
ZeroPart == [N |-> 0, Size |-> 0, from |-> 0, read |-> FALSE]

\* no PutPart call yet
NoAttempt == [partNum |-> 0, filePos |-> 0, partSize |-> 0, readBytes |-> 0,
              ok |-> FALSE, failuresBefore |-> 0, errorsBefore |-> 0]

\* the locals of the upload with the part loop before it starts: the open
\* file (size, pos), the loop variables, and what was called so far; acked
\* are the parts PutPart acknowledged, in that order, hashed is the range of
\* the file sum256 read and uploadFrom the position the upload started at
IdleUpload ==
    [pc |-> "idle", size |-> 0, pos |-> 0, err |-> "nil",
     partNum |-> 0, totalParts |-> 0, errorCount |-> 0, totalUploadSize |-> 0,
     parts |-> <<>>, attempts |-> 0, slept |-> 0, partFailures |-> 0,
     readErrors |-> 0, last |-> NoAttempt, completed |-> <<>>, puts |-> 0,
     acked |-> <<>>, manifest |-> EmptyManifest(""), manifestPuts |-> 0,
     hashed |-> [from |-> 0, to |-> 0], uploadFrom |-> 0]

InitPublishVars ==
    /\ s3Manifest = NoObject
    /\ s3Boxes = <<>>
    /\ inv = [p \in Procs |-> IdleInv]
    /\ started = 0
    /\ config = DefaultConfig
    /\ s3Meta = NoMeta
    /\ up = IdleUpload

----------------------------------------------------------------------------
(* Calls of the methods of manifest.go                                     *)

InitManifest ==
    /\ manifest = EmptyManifest(BoxName)
    /\ before = EmptyManifest(BoxName)
    /\ call = NoCall
    /\ InitPublishVars

\* m.add(version, provider)
CallAdd(version, provider) ==
    /\ LET r == add(manifest, version, provider) IN
        /\ manifest' = r.m
        /\ call' = [op |-> "add", version |-> version, provider |-> provider,
                    err |-> r.err, result |-> <<>>]
    /\ before' = manifest
    /\ UNCHANGED <<pubVars, up>>

\* m.getLatestVersion()
CallGetLatestVersion ==
    /\ call' = [NoCall EXCEPT !.op = "getLatestVersion",
                              !.result = getLatestVersion(manifest)]
    /\ before' = manifest
    /\ UNCHANGED <<manifest, pubVars, up>>

\* m.getNextVersion()
CallGetNextVersion ==
    /\ call' = [NoCall EXCEPT !.op = "getNextVersion",
                              !.result = getNextVersion(manifest)]
    /\ before' = manifest
    /\ UNCHANGED <<manifest, pubVars, up>>

\* any sequence of add calls on a manifest that starts empty
NextAdd ==
    /\ CountProviders(manifest, 1) < MaxEntries
    /\ \E version \in AddVersions, provider \in AddProviders :
           CallAdd(version, provider)

SpecAdd == InitManifest /\ [][NextAdd]_vars

----------------------------------------------------------------------------
(* Claims about Manifest.add                                               *)

\* manifest m holds a Version entry `version` with a Provider named `name`
Published(m, version, name) ==
    \E i \in 1..Len(m.Versions) :
        /\ m.Versions[i].Version = version
        /\ \E j \in 1..Len(m.Versions[i].Providers) :
               m.Versions[i].Providers[j].Name = name

\* C1: an add call for a (version, provider name) pair the manifest already
\* holds returns an error and leaves the whole manifest as it was before the
\* call, whatever url and checksum the new provider carries.
C1_DuplicateAddFails ==
    (call.op = "add" /\ Published(before, call.version, call.provider.Name))
        => (call.err # "nil" /\ manifest = before)

\* a duplicate add call was made whose url and checksum both differ from the
\* stored provider's
C1_Witness ==
    /\ call.op = "add"
    /\ call.err = "exists"
    /\ \E i \in 1..Len(before.Versions) :
        /\ before.Versions[i].Version = call.version
        /\ \E j \in 1..Len(before.Versions[i].Providers) :
            LET q == before.Versions[i].Providers[j] IN
            /\ q.Name = call.provider.Name
            /\ q.Url # call.provider.Url
            /\ q.Checksum # call.provider.Checksum

\* C2: a successful add call either appends one Version holding exactly the
\* new Provider at the end (no entry had the version string), or appends the
\* Provider at the end of the matching entry and creates no entry; every
\* other entry and every earlier provider keeps its value and position.
C2_AddFrame ==
    (call.op = "add" /\ ~Published(before, call.version, call.provider.Name)) =>
        LET old == before.Versions
            new == manifest.Versions
            hit == {i \in 1..Len(old) : old[i].Version = call.version}
        IN
        /\ call.err = "nil"
        /\ manifest.Name = before.Name
        /\ hit = {} =>
            /\ Len(new) = Len(old) + 1
            /\ new[Len(new)] = [Version |-> call.version,
                                Providers |-> <<call.provider>>]
            /\ \A i \in 1..Len(old) : new[i] = old[i]
        /\ hit # {} =>
            /\ Len(new) = Len(old)
            /\ \A i \in 1..Len(old) :
                /\ new[i].Version = old[i].Version
                /\ i \notin hit => new[i] = old[i]
                /\ i \in hit =>
                    /\ Len(new[i].Providers) = Len(old[i].Providers) + 1
                    /\ new[i].Providers[Len(new[i].Providers)] = call.provider
                    /\ \A j \in 1..Len(old[i].Providers) :
                           new[i].Providers[j] = old[i].Providers[j]

\* both cases of C2 happened: the last call added a provider to an existing
\* entry that is not the last one
C2_Witness ==
    /\ call.op = "add"
    /\ call.err = "nil"
    /\ Len(before.Versions) = 2
    /\ before.Versions[1].Version = call.version
    /\ Len(manifest.Versions[1].Providers) = 2

\* C3: in every manifest built by add calls from the empty manifest no two
\* Version entries carry the same version string and no two Providers of one
\* Version carry the same name.
C3_NoDuplicates ==
    /\ \A i, j \in 1..Len(manifest.Versions) :
           manifest.Versions[i].Version = manifest.Versions[j].Version => i = j
    /\ \A i \in 1..Len(manifest.Versions) :
           \A j, k \in 1..Len(manifest.Versions[i].Providers) :
               manifest.Versions[i].Providers[j].Name
                   = manifest.Versions[i].Providers[k].Name => j = k

\* a failing add call on a manifest with two entries, one with two providers
C3_Witness ==
    /\ call.op = "add"
    /\ call.err = "exists"
    /\ Len(manifest.Versions) = 2
    /\ \E i \in 1..2 : Len(manifest.Versions[i].Providers) = 2

----------------------------------------------------------------------------
(* Claims about getLatestVersion and getNextVersion                        *)

\* version strings of the manifests of SpecVersion: plain versions, one
\* whose minor is 9, pre-release and build metadata, a pre-release of 0.0.0,
\* and two strings semver.Make rejects ("1.2" and "09.0.0")
VersionStrings ==
    { <<"0", ".", "0", ".", "1">>,
      <<"0", ".", "0", ".", "2">>,
      <<"0", ".", "1", ".", "0">>,
      <<"0", ".", "9", ".", "0">>,
      <<"1", ".", "2", ".", "7">>,
      <<"1", ".", "2", ".", "7", "-", "a">>,
      <<"1", ".", "2", ".", "7", "-", "1">>,
      <<"1", ".", "2", ".", "7", "+", "b">>,
      <<"0", ".", "0", ".", "0", "-", "a">>,
      <<"1", ".", "2">>,
      <<"0", "9", ".", "0", ".", "0">> }

\* the one provider of the add calls of SpecVersion
VersionProvider ==
    [Name |-> "virtualbox", Url |-> "u1", ChecksumType |-> "sha256", Checksum |-> "c1"]

\* manifests with any version strings in any order, and the two getters
\* called on them
NextVersion ==
    \/ /\ Len(manifest.Versions) < MaxVersionEntries
       /\ \E version \in VersionStrings : CallAdd(version, VersionProvider)
    \/ CallGetLatestVersion
    \/ CallGetNextVersion

SpecVersion == InitManifest /\ [][NextVersion]_vars

\* the version strings of m, as a set
VersionSet(m) == {m.Versions[i].Version : i \in 1..Len(m.Versions)}

\* m without the entries whose version string is no semantic version
Parseable(m) ==
    [m EXCEPT !.Versions = SelectSeq(@, LAMBDA w : ~Make(w.Version).err)]

\* (major, minor, patch) of v is greater than that of o
TripleGreater(v, o) ==
    \/ v.Major > o.Major
    \/ v.Major = o.Major /\ v.Minor > o.Minor
    \/ v.Major = o.Major /\ v.Minor = o.Minor /\ v.Patch > o.Patch

SameTriple(v, o) == v.Major = o.Major /\ v.Minor = o.Minor /\ v.Patch = o.Patch

\* C4: getNextVersion returns the latest version with minor + 1, patch 0 and
\* the same major: 0.1.0 for the empty manifest and for {0.0.1, 0.0.2},
\* 1.3.0 for {1.2.7}; strings that are no semantic versions change nothing.
C4_NextVersion ==
    call.op = "getNextVersion" =>
        LET latest == Make(getLatestVersion(before))
            next   == Make(call.result)
        IN
        /\ ~latest.err /\ ~next.err
        /\ next.v.Major = latest.v.Major
        /\ next.v.Minor = latest.v.Minor + 1
        /\ next.v.Patch = 0
        /\ VersionSet(before) = {} => call.result = <<"0", ".", "1", ".", "0">>
        /\ VersionSet(before) = {<<"0", ".", "0", ".", "1">>, <<"0", ".", "0", ".", "2">>}
               => call.result = <<"0", ".", "1", ".", "0">>
        /\ VersionSet(before) = {<<"1", ".", "2", ".", "7">>}
               => call.result = <<"1", ".", "3", ".", "0">>
        /\ call.result = getNextVersion(Parseable(before))

\* getNextVersion ran on {0.0.1, 0.0.2} plus a string that does not parse
C4_Witness ==
    /\ call.op = "getNextVersion"
    /\ VersionSet(before) = {<<"0", ".", "0", ".", "1">>, <<"0", ".", "0", ".", "2">>,
                             <<"0", "9", ".", "0", ".", "0">>}
    /\ call.result = <<"0", ".", "1", ".", "0">>

\* C5: the version getNextVersion returns carries neither pre-release nor
\* build metadata: it is of the plain form major.minor.0.
C5_NextVersionPlain ==
    call.op = "getNextVersion" =>
        LET next == Make(call.result).v IN
        /\ next.Pre = <<>>
        /\ next.Build = <<>>
        /\ call.result = FormatUint(next.Major) \o <<".">> \o FormatUint(next.Minor)
                             \o <<".", "0">>

\* the semantic versions among the entries of m, as indexes
ParseableIdx(m) == {i \in 1..Len(m.Versions) : ~Make(m.Versions[i].Version).err}

\* entry i of m is a maximum of the parseable entries of m
IsMaxEntry(m, i) ==
    /\ i \in ParseableIdx(m)
    /\ \A j \in ParseableIdx(m) :
           Compare(Make(m.Versions[i].Version).v, Make(m.Versions[j].Version).v) >= 0

\* C6 as stated: getLatestVersion returns the maximum of the entries that
\* parse, and 0.0.0 when none parses.
C6_LatestIsMaxOfEntries ==
    call.op = "getLatestVersion" =>
        IF ParseableIdx(before) = {} THEN call.result = NoVersion
        ELSE \E i \in ParseableIdx(before) :
                 IsMaxEntry(before, i) /\ call.result = before.Versions[i].Version

\* C6 (amended): getLatestVersion returns the maximum, under semantic-version
\* ordering, of 0.0.0 and the entries that parse; entries that do not parse
\* are skipped; it is 0.0.0 when no entry parses and 0.1.0 over
\* {0.0.1, 0.0.2, 0.1.0} in any order.
C6_LatestIsMaxWithFloor ==
    call.op = "getLatestVersion" =>
        LET idx == ParseableIdx(before)
            res == Make(call.result)
        IN
        /\ ~res.err
        /\ \/ call.result = NoVersion
           \/ \E i \in idx : call.result = before.Versions[i].Version
        /\ Compare(res.v, Make(NoVersion).v) >= 0
        /\ \A j \in idx : Compare(res.v, Make(before.Versions[j].Version).v) >= 0
        /\ idx = {} => call.result = NoVersion
        /\ VersionSet(before) = {<<"0", ".", "0", ".", "1">>, <<"0", ".", "0", ".", "2">>,
                                 <<"0", ".", "1", ".", "0">>}
               => call.result = <<"0", ".", "1", ".", "0">>

\* getLatestVersion ran on a manifest whose maximum is neither first nor
\* last and which holds a string that does not parse
C6_Witness ==
    /\ call.op = "getLatestVersion"
    /\ Len(before.Versions) = 3
    /\ before.Versions[2].Version = call.result
    /\ Make(before.Versions[3].Version).err
    /\ call.result # NoVersion

\* the first of 0.0.0 and the entries of m, in order, whose
\* (major, minor, patch) no parseable entry exceeds
FirstMaxTriple(m) ==
    LET idx   == ParseableIdx(m)
        V(i)  == Make(m.Versions[i].Version).v
        tops  == {i \in idx : /\ ~TripleGreater(Make(NoVersion).v, V(i))
                              /\ \A j \in idx : ~TripleGreater(V(j), V(i))}
    IN
    IF \A i \in idx : ~TripleGreater(V(i), Make(NoVersion).v) THEN NoVersion
    ELSE m.Versions[CHOOSE i \in tops : \A j \in tops : i <= j].Version

\* C7 as stated: the ordering looks at major, minor and patch only, so the
\* result is the first entry with the greatest (major, minor, patch): a
\* later entry that differs from it only in pre-release or build metadata
\* never replaces it.
C7_OrderIgnoresPreAndBuild ==
    call.op = "getLatestVersion" => call.result = FirstMaxTriple(before)

\* C7 (amended): the ordering compares major, minor and patch and then the
\* pre-release (a version without pre-release is greater than the same
\* version with one); only build metadata is ignored, so an entry that
\* differs from an earlier candidate only in build metadata is never the
\* latest version.
C7_OrderIgnoresBuildOnly ==
    call.op = "getLatestVersion" =>
        LET idx  == ParseableIdx(before)
            V(i) == Make(before.Versions[i].Version).v
            res  == Make(call.result).v
        IN
        \A i \in idx :
            /\ ~TripleGreater(V(i), res)
            /\ (SameTriple(V(i), res) /\ V(i).Pre = <<>>) => res.Pre = <<>>
            /\ (\/ (SameTriple(V(i), Make(NoVersion).v) /\ V(i).Pre = <<>>)
                \/ \E k \in idx : /\ k < i
                                  /\ SameTriple(V(k), V(i))
                                  /\ V(k).Pre = V(i).Pre)
                   => call.result # before.Versions[i].Version

\* getLatestVersion ran on a manifest that holds 1.2.7 and, after it,
\* 1.2.7+b, and also a pre-release of 1.2.7
C7_Witness ==
    /\ call.op = "getLatestVersion"
    /\ Len(before.Versions) = 3
    /\ before.Versions[1].Version = <<"1", ".", "2", ".", "7", "-", "a">>
    /\ before.Versions[2].Version = <<"1", ".", "2", ".", "7">>
    /\ before.Versions[3].Version = <<"1", ".", "2", ".", "7", "+", "b">>
    /\ call.result = <<"1", ".", "2", ".", "7">>

----------------------------------------------------------------------------
(* PostProcess: one publish of a box                                       *)

\* artifact.BuilderId() of the artifacts handed to PostProcess
BuilderIds == {"mitchellh.post-processor.vagrant", "vagrant", "packer.file"}

BoxA == [dir |-> "output", base |-> "a.box", ext |-> ".box"]

OtherFile == [dir |-> "output", base |-> "a.ovf", ext |-> ".ovf"]

\* artifact.Files() of the artifacts handed to PostProcess
FileLists == {<<>>, <<BoxA>>, <<OtherFile>>, <<BoxA, OtherFile>>}

\* the artifacts handed to PostProcess: every one that is rejected, and of
\* those that are accepted one per accepted builder id, the first with one
\* file and the second with two
Artifacts ==
    {a \in [builderId : BuilderIds, files : FileLists] :
        (a.builderId \in {"mitchellh.post-processor.vagrant", "vagrant"}
            /\ Len(a.files) > 0 /\ a.files[1].ext = ".box")
        => \/ a.builderId = "mitchellh.post-processor.vagrant" /\ a.files = <<BoxA>>
           \/ a.builderId = "vagrant" /\ a.files = <<BoxA, OtherFile>>}

\* artifact.Id() of the artifacts handed to PostProcess
BuilderNames == {"virtualbox", "vmware"}

\* p.config.Version: unset, or an explicit version
CfgVersions == {<<>>, <<"1", ".", "0", ".", "0">>}

\* the configurations of Spec: signed_expiry unset, or 60 seconds
Configs == {DefaultConfig, [DefaultConfig EXCEPT !.SignedExpiry = 60]}

\* the bytes of the local box file
Contents == {"A", "B"}

\* strings.HasSuffix(box, ".box")
IsBoxFile(box) == box.ext = ".box"

\* the steps of PostProcess, in the order of its statements
StepOrder == <<"validate", "stat", "resolve", "checksum", "upload", "fetch",
               "merge", "persist">>

\* `return nil, false, false, err` at step `step`
Fail(r, step, e) == [r EXCEPT !.pc = "done", !.err = e, !.failedAt = step]

\* one more step of the invocation runs
Enter(r, step) == [r EXCEPT !.trace = Append(@, step)]

\* one more call on the bucket
Called(r, step, op, key) ==
    [r EXCEPT !.calls = Append(@, [step |-> step, op |-> op, key |-> key])]

\* the error codes GetObject can answer with for the object obj ("" is
\* success): NoSuchKey exactly when the key holds no object
GetCodes(obj) == IF obj.exists THEN {"", "InternalError"} ELSE {"NoSuchKey", "InternalError"}

\* the summary of the invocation r that the next invocation keeps: set when r
\* had an explicit version and failed after its upload
Outcome(r) ==
    IF r.pc = "done" /\ r.cfgVersion # <<>> /\ r.failedAt \in {"fetch", "merge", "persist"}
    THEN [failedAt |-> r.failedAt, cfgVersion |-> r.cfgVersion, provider |-> r.provider,
          base |-> r.box.base, startManifest |-> r.startManifest]
    ELSE NoPrev

\* getManifest with every error of GetObject taken for "not found"
getManifest_anyErrorEmpty(obj, code, decodeOk) ==
    IF code # "" THEN [err |-> "nil", m |-> EmptyManifest(BoxName)]
    ELSE IF ~decodeOk THEN [err |-> "Decode", m |-> EmptyManifest("")]
    ELSE [err |-> "nil", m |-> Decode(obj.body)]

\* p.getManifest(): GetObject on the manifest key answers with the error
\* code `code`; NoSuchKey gives an empty manifest named after the box, any
\* other error is returned, and so is the error of decoding the body
getManifest(obj, code, decodeOk) ==
    IF code # "" THEN
        IF code = "NoSuchKey" THEN [err |-> "nil", m |-> EmptyManifest(BoxName)]
        ELSE [err |-> code, m |-> EmptyManifest("")]
    ELSE IF ~decodeOk THEN [err |-> "Decode", m |-> EmptyManifest("")]
    ELSE [err |-> "nil", m |-> Decode(obj.body)]

\* the answer of one getManifest call, as the invocation records it
Got(r, step, code, decodeOk) ==
    [r EXCEPT !.gets = Append(@, [step |-> step, code |-> code,
                                  decoded |-> code = "" /\ decodeOk])]

\* PostProcess is called: the checks of the artifact and the provider name
Validate(p) ==
    /\ inv[p].pc \in {"idle", "done"}
    /\ started < MaxPublishes
    /\ started' = started + 1
    /\ \E artifact \in Artifacts, id \in BuilderNames :
        LET builderId == artifact.builderId
            files     == artifact.files
            r == Enter([IdleInv EXCEPT !.startManifest = s3Manifest,
                                       !.startBoxes = s3Boxes,
                                       !.builderId = builderId,
                                       !.files = files,
                                       !.prev = Outcome(inv[p])], "validate")
        IN
        inv' = [inv EXCEPT ![p] =
            IF builderId \notin {"mitchellh.post-processor.vagrant", "vagrant"}
            THEN Fail(r, "validate", "unknown artifact type")
            ELSE IF Len(files) = 0
            THEN Fail(r, "validate", "panic: index out of range")
            ELSE IF ~IsBoxFile(files[1])
            THEN Fail(r, "validate", "unknown files")
            ELSE [r EXCEPT !.pc = "stat", !.box = files[1],
                           !.provider = providerFromBuilderName(id)]]
    /\ UNCHANGED <<s3Manifest, s3Boxes, config, s3Meta, unitVars, up>>

\* os.Stat(box)
Stat(p) ==
    /\ inv[p].pc = "stat"
    /\ \E ok \in BOOLEAN :
        LET r == Enter(inv[p], "stat") IN
        inv' = [inv EXCEPT ![p] =
            IF ok THEN [r EXCEPT !.pc = "resolve"] ELSE Fail(r, "stat", "stat")]
    /\ UNCHANGED <<s3Manifest, s3Boxes, started, config, s3Meta, unitVars, up>>

\* the resolve step with getLatestVersion in the place of getNextVersion
Resolve_latest(p) ==
    /\ inv[p].pc = "resolve"
    /\ \E cfgVersion \in CfgVersions, code \in GetCodes(s3Manifest), decodeOk \in BOOLEAN :
        LET r == [Enter(inv[p], "resolve") EXCEPT !.cfgVersion = cfgVersion]
            g == getManifest(s3Manifest, code, decodeOk)
            c == Got(Called(r, "resolve", "GetObject", ManifestPath),
                     "resolve", code, decodeOk)
        IN
        inv' = [inv EXCEPT ![p] =
            IF cfgVersion # <<>>
            THEN [r EXCEPT !.pc = "checksum", !.version = cfgVersion]
            ELSE IF g.err # "nil" THEN Fail(c, "resolve", g.err)
            ELSE [c EXCEPT !.pc = "checksum", !.version = getLatestVersion(g.m)]]
    /\ UNCHANGED <<s3Manifest, s3Boxes, started, config, s3Meta, unitVars, up>>

\* the resolve step without the test of p.config.Version: the version is
\* always determined from the manifest
Resolve_alwaysDetermine(p) ==
    /\ inv[p].pc = "resolve"
    /\ \E cfgVersion \in CfgVersions, code \in GetCodes(s3Manifest), decodeOk \in BOOLEAN :
        LET r == [Enter(inv[p], "resolve") EXCEPT !.cfgVersion = cfgVersion]
            g == getManifest(s3Manifest, code, decodeOk)
            c == Got(Called(r, "resolve", "GetObject", ManifestPath),
                     "resolve", code, decodeOk)
        IN
        inv' = [inv EXCEPT ![p] =
            IF g.err # "nil" THEN Fail(c, "resolve", g.err)
            ELSE [c EXCEPT !.pc = "checksum", !.version = getNextVersion(g.m)]]
    /\ UNCHANGED <<s3Manifest, s3Boxes, started, config, s3Meta, unitVars, up>>

\* version := p.config.Version, or p.determineVersion() when it is empty
Resolve(p) ==
    /\ inv[p].pc = "resolve"
    /\ \E cfgVersion \in CfgVersions, code \in GetCodes(s3Manifest), decodeOk \in BOOLEAN :
        LET r == [Enter(inv[p], "resolve") EXCEPT !.cfgVersion = cfgVersion]
            g == getManifest(s3Manifest, code, decodeOk)
            c == Got(Called(r, "resolve", "GetObject", ManifestPath),
                     "resolve", code, decodeOk)
        IN
        inv' = [inv EXCEPT ![p] =
            IF cfgVersion # <<>>
            THEN [r EXCEPT !.pc = "checksum", !.version = cfgVersion]
            ELSE IF g.err # "nil" THEN Fail(c, "resolve", g.err)
            ELSE [c EXCEPT !.pc = "checksum", !.version = getNextVersion(g.m)]]
    /\ UNCHANGED <<s3Manifest, s3Boxes, started, config, s3Meta, unitVars, up>>

\* checksum, err := sum256(box)
Checksum(p) ==
    /\ inv[p].pc = "checksum"
    /\ \E content \in Contents, ok \in BOOLEAN :
        LET r == Enter(inv[p], "checksum") IN
        inv' = [inv EXCEPT ![p] =
            IF ok
            THEN [r EXCEPT !.pc = "upload", !.content = content,
                           !.checksum = sum256(content)]
            ELSE Fail(r, "checksum", "sum256")]
    /\ UNCHANGED <<s3Manifest, s3Boxes, started, config, s3Meta, unitVars, up>>

\* the upload step without the `return` on its error: PostProcess goes on
\* to the manifest after a failed upload
Upload_noReturn(p) ==
    /\ inv[p].pc = "upload"
    /\ \E ok \in BOOLEAN :
        LET key == BoxPath(inv[p].version, inv[p].box)
            r   == Called(Enter(inv[p], "upload"), "upload", "Upload", key)
        IN
        /\ inv' = [inv EXCEPT ![p] =
               IF ok THEN [r EXCEPT !.pc = "fetch"]
               ELSE [r EXCEPT !.pc = "fetch", !.err = "Upload", !.failedAt = "upload"]]
        /\ s3Boxes' = IF ok THEN (key :> inv[p].content) @@ s3Boxes ELSE s3Boxes
        /\ s3Meta' = IF ok THEN UploadMeta(s3Meta, config, key) ELSE s3Meta
    /\ UNCHANGED <<s3Manifest, started, config, unitVars, up>>

\* err = p.uploadBox(box, boxPath)
Upload(p) ==
    /\ inv[p].pc = "upload"
    /\ \E ok \in BOOLEAN :
        LET key == BoxPath(inv[p].version, inv[p].box)
            r   == Called(Enter(inv[p], "upload"), "upload", "Upload", key)
        IN
        /\ inv' = [inv EXCEPT ![p] =
               IF ok THEN [r EXCEPT !.pc = "fetch"] ELSE Fail(r, "upload", "Upload")]
        /\ s3Boxes' = IF ok THEN (key :> inv[p].content) @@ s3Boxes ELSE s3Boxes
        /\ s3Meta' = IF ok THEN UploadMeta(s3Meta, config, key) ELSE s3Meta
    /\ UNCHANGED <<s3Manifest, started, config, unitVars, up>>

\* manifest, err := p.getManifest()
Fetch(p) ==
    /\ inv[p].pc = "fetch"
    /\ \E code \in GetCodes(s3Manifest), decodeOk \in BOOLEAN :
        LET r == Got(Called(Enter(inv[p], "fetch"), "fetch", "GetObject", ManifestPath),
                     "fetch", code, decodeOk)
            g == getManifest(s3Manifest, code, decodeOk)
        IN
        inv' = [inv EXCEPT ![p] =
            IF g.err # "nil" THEN Fail(r, "fetch", g.err)
            ELSE [r EXCEPT !.pc = "merge", !.manifest = g.m, !.fetched = g.m]]
    /\ UNCHANGED <<s3Manifest, s3Boxes, started, config, s3Meta, unitVars, up>>

\* the merge step with the error of manifest.add dropped
Merge_ignoreConflict(p) ==
    /\ inv[p].pc = "merge"
    /\ \E presignOk \in BOOLEAN :
        LET r   == Enter(inv[p], "merge")
            key == BoxPath(r.version, r.box)
            url == IF config.SignedExpiry = 0
                   THEN generateS3Url(Region, Bucket, config.CloudFront, key)
                   ELSE Presign(Bucket, key, config.SignedExpiry)
            a   == add(r.manifest, r.version,
                       [Name |-> r.provider, Url |-> url,
                        ChecksumType |-> "sha256", Checksum |-> r.checksum])
        IN
        inv' = [inv EXCEPT ![p] =
            IF config.SignedExpiry # 0 /\ ~presignOk THEN Fail(r, "merge", "Presign")
            ELSE [r EXCEPT !.pc = "persist", !.url = url, !.manifest = a.m]]
    /\ UNCHANGED <<s3Manifest, s3Boxes, started, config, s3Meta, unitVars, up>>

\* the url of the box and manifest.add(version, &Provider{...})
Merge(p) ==
    /\ inv[p].pc = "merge"
    /\ \E presignOk \in BOOLEAN :
        LET r   == Enter(inv[p], "merge")
            key == BoxPath(r.version, r.box)
            url == IF config.SignedExpiry = 0
                   THEN generateS3Url(Region, Bucket, config.CloudFront, key)
                   ELSE Presign(Bucket, key, config.SignedExpiry)
            a   == add(r.manifest, r.version,
                       [Name |-> r.provider, Url |-> url,
                        ChecksumType |-> "sha256", Checksum |-> r.checksum])
        IN
        inv' = [inv EXCEPT ![p] =
            IF config.SignedExpiry # 0 /\ ~presignOk THEN Fail(r, "merge", "Presign")
            ELSE IF a.err # "nil" THEN Fail([r EXCEPT !.url = url], "merge", a.err)
            ELSE [r EXCEPT !.pc = "persist", !.url = url, !.manifest = a.m]]
    /\ UNCHANGED <<s3Manifest, s3Boxes, started, config, s3Meta, unitVars, up>>

\* the persist step with a PutObject that stores the document and then
\* answers with an error
Persist_writeOnError(p) ==
    /\ inv[p].pc = "persist"
    /\ \E ok \in BOOLEAN :
        LET r == Called(Enter(inv[p], "persist"), "persist", "PutObject", ManifestPath) IN
        /\ inv' = [inv EXCEPT ![p] =
               IF ok
               THEN [r EXCEPT !.pc = "done",
                              !.artifact = generateS3Url(Region, Bucket,
                                                         config.CloudFront,
                                                         ManifestPath)]
               ELSE Fail(r, "persist", "PutObject")]
        /\ s3Manifest' = [exists |-> TRUE, body |-> Encode(inv[p].manifest)]
        /\ s3Meta' = ManifestMeta(s3Meta, config)
    /\ UNCHANGED <<s3Boxes, started, config, unitVars, up>>

\* the persist step with the url of the box in the Artifact it returns
Persist_boxUrl(p) ==
    /\ inv[p].pc = "persist"
    /\ \E ok \in BOOLEAN :
        LET r == Called(Enter(inv[p], "persist"), "persist", "PutObject", ManifestPath) IN
        /\ inv' = [inv EXCEPT ![p] =
               IF ok
               THEN [r EXCEPT !.pc = "done",
                              !.artifact = generateS3Url(Region, Bucket,
                                                         config.CloudFront,
                                                         BoxPath(r.version, r.box))]
               ELSE Fail(r, "persist", "PutObject")]
        /\ s3Manifest' = IF ok THEN [exists |-> TRUE, body |-> Encode(inv[p].manifest)]
                         ELSE s3Manifest
        /\ s3Meta' = IF ok THEN ManifestMeta(s3Meta, config) ELSE s3Meta
    /\ UNCHANGED <<s3Boxes, started, config, unitVars, up>>

\* the persist step with a write that adds the new Provider to the document
\* stored at that moment instead of replacing the document
Persist_mergeStored(p) ==
    /\ inv[p].pc = "persist"
    /\ \E ok \in BOOLEAN :
        LET r == Called(Enter(inv[p], "persist"), "persist", "PutObject", ManifestPath)
            stored == IF s3Manifest.exists THEN Decode(s3Manifest.body)
                      ELSE EmptyManifest(BoxName)
            merged == add(stored, r.version,
                          [Name |-> r.provider, Url |-> r.url,
                           ChecksumType |-> "sha256", Checksum |-> r.checksum]).m
        IN
        /\ inv' = [inv EXCEPT ![p] =
               IF ok
               THEN [r EXCEPT !.pc = "done",
                              !.artifact = generateS3Url(Region, Bucket,
                                                         config.CloudFront,
                                                         ManifestPath)]
               ELSE Fail(r, "persist", "PutObject")]
        /\ s3Manifest' = IF ok THEN [exists |-> TRUE, body |-> Encode(merged)]
                         ELSE s3Manifest
        /\ s3Meta' = IF ok THEN ManifestMeta(s3Meta, config) ELSE s3Meta
    /\ UNCHANGED <<s3Boxes, started, config, unitVars, up>>

\* p.putManifest(manifest) and the return of the Artifact
Persist(p) ==
    /\ inv[p].pc = "persist"
    /\ \E ok \in BOOLEAN :
        LET r == Called(Enter(inv[p], "persist"), "persist", "PutObject", ManifestPath) IN
        /\ inv' = [inv EXCEPT ![p] =
               IF ok
               THEN [r EXCEPT !.pc = "done",
                              !.artifact = generateS3Url(Region, Bucket,
                                                         config.CloudFront,
                                                         ManifestPath)]
               ELSE Fail(r, "persist", "PutObject")]
        /\ s3Manifest' = IF ok THEN [exists |-> TRUE, body |-> Encode(inv[p].manifest)]
                         ELSE s3Manifest
        /\ s3Meta' = IF ok THEN ManifestMeta(s3Meta, config) ELSE s3Meta
    /\ UNCHANGED <<s3Boxes, started, config, unitVars, up>>

\* one statement of the PostProcess invocation p
PostProcess(p) ==
    \/ Validate(p)
    \/ Stat(p)
    \/ Resolve(p)
    \/ Checksum(p)
    \/ Upload(p)
    \/ Fetch(p)
    \/ Merge(p)
    \/ Persist(p)

\* an empty bucket and a PostProcessor configured with one of Configs
Init ==
    /\ manifest = EmptyManifest(BoxName)
    /\ before = EmptyManifest(BoxName)
    /\ call = NoCall
    /\ s3Manifest = NoObject
    /\ s3Boxes = <<>>
    /\ inv = [p \in Procs |-> IdleInv]
    /\ started = 0
    /\ config \in Configs
    /\ s3Meta = NoMeta
    /\ up = IdleUpload

\* the invocations of Spec: publishes run one after another
SeqProcs == {"p1"}

Next == \E p \in SeqProcs : PostProcess(p)

Spec == Init /\ [][Next]_vars

----------------------------------------------------------------------------
(* Claims about PostProcess                                                *)

\* the invocation r has an explicit version, and the manifest persisted when
\* it started already held that version with r's provider
DuplicatePublish(r) ==
    /\ r.cfgVersion # <<>>
    /\ r.startManifest.exists
    /\ Published(Decode(r.startManifest.body), r.cfgVersion, r.provider)

\* the invocation r made a call `op` on the bucket
HasCall(r, op) == \E i \in 1..Len(r.calls) : r.calls[i].op = op

\* C8: a publish with an explicit version and a provider that the persisted
\* manifest already holds together never succeeds and never writes the
\* manifest: the stored document is the same after it as before it, and once
\* the publish reaches manifest.add its error is the duplicate-provider
\* conflict.
C8_DuplicatePublishFails ==
    \A p \in Procs :
        (inv[p].pc = "done" /\ DuplicatePublish(inv[p])) =>
            /\ inv[p].err # "nil"
            /\ ~HasCall(inv[p], "PutObject")
            /\ s3Manifest = inv[p].startManifest
            /\ inv[p].url # NoUrl => inv[p].err = "exists"

\* a duplicate publish went through upload and fetch and ended in the conflict
C8_Witness ==
    \E p \in Procs :
        /\ inv[p].pc = "done"
        /\ DuplicatePublish(inv[p])
        /\ inv[p].err = "exists"
        /\ inv[p].failedAt = "merge"

\* C9: a publish that ends in the duplicate-provider conflict overwrites
\* nothing that was published before it: the persisted manifest and every box
\* object that was in the bucket when it started are unchanged.
C9_ConflictOverwritesNothing ==
    \A p \in Procs :
        (inv[p].pc = "done" /\ inv[p].err = "exists") =>
            /\ s3Manifest = inv[p].startManifest
            /\ \A key \in DOMAIN inv[p].startBoxes :
                   /\ key \in DOMAIN s3Boxes
                   /\ s3Boxes[key] = inv[p].startBoxes[key]

\* t is a prefix of s
IsPrefix(t, s) == Len(t) <= Len(s) /\ \A i \in 1..Len(t) : t[i] = s[i]

\* the position of step in StepOrder
StepIndex(step) == CHOOSE i \in 1..Len(StepOrder) : StepOrder[i] = step

\* C10: the steps of a publish run in the order validate, (stat,) resolve
\* version, checksum, upload, fetch-or-create manifest, merge, persist, each
\* only after every earlier one succeeded; the first failing step ends the
\* publish, so that no later step calls the bucket and no result is returned;
\* nothing is rolled back: a box that was uploaded stays in the bucket when
\* the fetch, the merge or the write of the manifest fails.
C10_StrictStepOrder ==
    \A p \in SeqProcs :
        LET r == inv[p] IN
        /\ IsPrefix(r.trace, StepOrder)
        /\ r.failedAt # "" =>
            /\ r.pc = "done"
            /\ r.err # "nil"
            /\ r.trace[Len(r.trace)] = r.failedAt
            /\ r.artifact = NoUrl
        /\ r.artifact # NoUrl => (r.trace = StepOrder /\ r.err = "nil" /\ r.pc = "done")
        /\ \A i \in 1..Len(r.calls) :
            /\ r.calls[i].step \in Range(r.trace)
            /\ \A j \in 1..(i - 1) :
                   StepIndex(r.calls[j].step) < StepIndex(r.calls[i].step)
        /\ (Len(r.trace) > StepIndex("upload")
              \/ (Len(r.trace) = StepIndex("upload") /\ r.failedAt = "")) =>
            /\ BoxPath(r.version, r.box) \in DOMAIN s3Boxes
            /\ s3Boxes[BoxPath(r.version, r.box)] = r.content

\* a publish uploaded its box and then failed to write the manifest: the box
\* is in the bucket and the manifest is the one from before
C10_Witness ==
    \E p \in SeqProcs :
        /\ inv[p].pc = "done"
        /\ inv[p].failedAt = "persist"
        /\ BoxPath(inv[p].version, inv[p].box) \in DOMAIN s3Boxes
        /\ BoxPath(inv[p].version, inv[p].box) \notin DOMAIN inv[p].startBoxes
        /\ s3Manifest = inv[p].startManifest

----------------------------------------------------------------------------
(* Claims about retries, version resolution and the manifest round trip    *)

\* the invocation r repeats the publish before it, which had an explicit
\* version and failed after its upload: same version, provider and file
Retry(r) ==
    /\ r.prev.failedAt # ""
    /\ r.cfgVersion = r.prev.cfgVersion
    /\ r.provider = r.prev.provider
    /\ r.box.base = r.prev.base

\* the manifest the object obj holds, as getManifest returns it without errors
ManifestOf(obj) == IF obj.exists THEN Decode(obj.body) ELSE EmptyManifest(BoxName)

\* C11 as stated: after a publish with an explicit version failed at a step
\* after the upload, a retry with the same version and provider that reaches
\* manifest.add is rejected there with the duplicate-provider conflict.
C11_RetryRejected ==
    \A p \in SeqProcs :
        (inv[p].pc = "done" /\ Retry(inv[p]) /\ inv[p].url # NoUrl) =>
            /\ inv[p].failedAt = "merge"
            /\ inv[p].err = "exists"

\* C11 (amended): a publish with an explicit version that failed after its
\* upload has left the persisted manifest as it was, so a retry with the same
\* version and provider that reaches manifest.add is rejected with the
\* duplicate-provider conflict exactly when the manifest held that version
\* and provider already before the failed publish; otherwise the add succeeds.
C11_RetryRejectedIffPublished ==
    \A p \in SeqProcs :
        LET r == inv[p] IN
        Retry(r) =>
            /\ r.startManifest = r.prev.startManifest
            /\ (r.pc = "done" /\ r.url # NoUrl) =>
                   ((r.failedAt = "merge" /\ r.err = "exists")
                        <=> Published(ManifestOf(r.prev.startManifest),
                                      r.version, r.provider))

\* the write of the manifest failed after the upload, and the retry with the
\* same version and provider succeeded
C11_Witness ==
    \E p \in SeqProcs :
        /\ inv[p].pc = "done"
        /\ Retry(inv[p])
        /\ inv[p].prev.failedAt = "persist"
        /\ inv[p].err = "nil"
        /\ inv[p].artifact # NoUrl

CallsOf(r, op) == {i \in 1..Len(r.calls) : r.calls[i].op = op}

\* C14: with a non-empty configured version PostProcess uses exactly that
\* string in the key of the box and in the manifest entry and fetches the
\* manifest once, at the fetch step; with an empty one it fetches the
\* manifest at the resolve step and uses getNextVersion of it, and a failure
\* of that fetch ends the publish before checksum and upload.
C14_VersionResolution ==
    \A p \in SeqProcs :
        LET r == inv[p] IN
        "resolve" \in Range(r.trace) =>
            /\ \A i \in CallsOf(r, "Upload") : r.calls[i].key = <<BoxDir, r.version, r.box.base>>
            /\ r.cfgVersion # <<>> =>
                /\ r.version = r.cfgVersion
                /\ Cardinality(CallsOf(r, "GetObject")) <= 1
                /\ \A i \in CallsOf(r, "GetObject") : r.calls[i].step = "fetch"
                /\ (r.pc = "done" /\ r.err = "nil") =>
                    /\ Cardinality(CallsOf(r, "GetObject")) = 1
                    /\ LET new == Decode(s3Manifest.body)
                           i   == FindVersion(new, r.cfgVersion)
                       IN
                       /\ i # 0
                       /\ LET q == new.Versions[i].Providers[Len(new.Versions[i].Providers)] IN
                           /\ q.Name = r.provider
                           /\ q.Url.key = <<BoxDir, r.cfgVersion, r.box.base>>
            /\ r.cfgVersion = <<>> =>
                /\ r.calls # <<>>
                /\ r.calls[1] = [step |-> "resolve", op |-> "GetObject", key |-> ManifestPath]
                /\ r.failedAt = "resolve" =>
                    /\ r.trace = <<"validate", "stat", "resolve">>
                    /\ Len(r.calls) = 1
                    /\ r.checksum = ""
                    /\ s3Boxes = r.startBoxes
                /\ r.failedAt # "resolve" =>
                       r.version = getNextVersion(ManifestOf(r.startManifest))

\* a publish with an explicit version succeeded on a manifest that existed
\* already, with one fetch of the manifest
C14_Witness ==
    \E p \in SeqProcs :
        /\ inv[p].pc = "done"
        /\ inv[p].err = "nil"
        /\ inv[p].cfgVersion # <<>>
        /\ inv[p].startManifest.exists
        /\ Cardinality(CallsOf(inv[p], "GetObject")) = 1

\* the getManifest call with the answer g succeeded
GetSucceeded(g) == g.code = "NoSuchKey" \/ g.decoded

\* C15: getManifest takes exactly the answer NoSuchKey for success and then
\* returns an empty manifest named after the configured box; every other
\* error of the fetch and every error of decoding is fatal, and the publish
\* then writes no manifest.
C15_NotFoundOnly ==
    \A p \in SeqProcs :
        LET r == inv[p] IN
        \A i \in 1..Len(r.gets) :
            LET g == r.gets[i] IN
            /\ GetSucceeded(g) <=> r.failedAt # g.step
            /\ (g.code = "NoSuchKey" /\ g.step = "fetch") =>
                /\ r.fetched.Name = BoxName
                /\ r.fetched.Versions = <<>>
            /\ (g.code = "NoSuchKey" /\ g.step = "resolve") =>
                   r.version = getNextVersion([Name |-> BoxName, Versions |-> <<>>])
            /\ ~GetSucceeded(g) =>
                /\ r.pc = "done"
                /\ r.err # "nil"
                /\ r.artifact = NoUrl
                /\ CallsOf(r, "PutObject") = {}
                /\ s3Manifest = r.startManifest

\* the first publish into a bucket without manifest succeeded: the fetch was
\* answered NoSuchKey and the manifest written carries the box name
C15_Witness ==
    \E p \in SeqProcs :
        /\ inv[p].pc = "done"
        /\ inv[p].err = "nil"
        /\ \E i \in 1..Len(inv[p].gets) :
               inv[p].gets[i].step = "fetch" /\ inv[p].gets[i].code = "NoSuchKey"
        /\ s3Manifest.exists
        /\ Decode(s3Manifest.body).Name = BoxName

\* C16: a successful publish writes the manifest once, as a whole document,
\* and the document is the manifest fetched at the fetch step plus one
\* Provider: the name and all earlier Versions and Providers are unchanged
\* and in their order, and the new entry is one Version at the end or one
\* Provider at the end of an existing Version.
C16_WritesFetchedPlusOne ==
    \A p \in SeqProcs :
        LET r == inv[p] IN
        (r.pc = "done" /\ r.err = "nil") =>
            LET old   == r.fetched
                new   == Decode(s3Manifest.body)
                i     == FindVersion(old, r.version)
                added == [Name |-> r.provider, Url |-> r.url,
                          ChecksumType |-> "sha256", Checksum |-> r.checksum]
            IN
            /\ Cardinality(CallsOf(r, "PutObject")) = 1
            /\ \A k \in CallsOf(r, "PutObject") : r.calls[k].key = ManifestPath
            /\ s3Manifest.exists
            /\ new.Name = old.Name
            /\ i = 0 =>
                /\ Len(new.Versions) = Len(old.Versions) + 1
                /\ \A j \in 1..Len(old.Versions) : new.Versions[j] = old.Versions[j]
                /\ new.Versions[Len(new.Versions)]
                       = [Version |-> r.version, Providers |-> <<added>>]
            /\ i # 0 =>
                /\ Len(new.Versions) = Len(old.Versions)
                /\ \A j \in 1..Len(old.Versions) :
                       j # i => new.Versions[j] = old.Versions[j]
                /\ new.Versions[i].Version = old.Versions[i].Version
                /\ new.Versions[i].Providers = Append(old.Versions[i].Providers, added)

\* a successful publish added a Provider to a Version that is not the last
\* of the manifest
C16_Witness ==
    \E p \in SeqProcs :
        /\ inv[p].pc = "done"
        /\ inv[p].err = "nil"
        /\ FindVersion(inv[p].fetched, inv[p].version) # 0
        /\ FindVersion(inv[p].fetched, inv[p].version) < Len(inv[p].fetched.Versions)

\* C17: PostProcess returns an Artifact only after the write of the manifest
\* succeeded, its url is that of the manifest key and never that of the box,
\* and on every failure it returns no Artifact with the error.
C17_ArtifactAfterWrite ==
    \A p \in SeqProcs :
        LET r == inv[p] IN
        /\ (r.pc # "done" \/ r.err # "nil") => r.artifact = NoUrl
        /\ (r.pc = "done" /\ r.err = "nil") => r.artifact # NoUrl
        /\ r.artifact # NoUrl =>
            /\ r.calls[Len(r.calls)]
                   = [step |-> "persist", op |-> "PutObject", key |-> ManifestPath]
            /\ s3Manifest = [exists |-> TRUE, body |-> Encode(r.manifest)]
            /\ r.artifact.key = ManifestPath
            /\ r.artifact.key # <<BoxDir, r.version, r.box.base>>
            /\ r.artifact.form = "s3"
            /\ r.artifact.bucket = Bucket

\* a publish with signed urls succeeded: the box url in the manifest is
\* presigned and the Artifact is the plain url of the manifest
C17_Witness ==
    \E p \in SeqProcs :
        /\ inv[p].pc = "done"
        /\ inv[p].artifact # NoUrl
        /\ inv[p].url.form = "presigned"
        /\ inv[p].artifact.key = ManifestPath

\* the artifact of r is not one box file of an accepted producer
BadArtifact(r) ==
    \/ r.builderId \notin {"mitchellh.post-processor.vagrant", "vagrant"}
    \/ Len(r.files) # 1
    \/ r.files[1].ext # ".box"

\* C18: for every artifact that is not a single box file of an accepted
\* producer PostProcess returns an input error, without access to a file and
\* without a call on the bucket.
C18_InputErrors ==
    \A p \in SeqProcs :
        LET r == inv[p] IN
        (r.trace # <<>> /\ BadArtifact(r)) =>
            /\ r.pc = "done"
            /\ r.failedAt = "validate"
            /\ r.err \in {"unknown artifact type", "unknown files"}
            /\ r.trace = <<"validate">>
            /\ r.calls = <<>>

----------------------------------------------------------------------------
(* Two PostProcess invocations at the same time on one bucket              *)

\* the call of PostProcess of an invocation that has not run yet
ConcValidate(p) == inv[p].pc = "idle" /\ Validate(p)

\* one statement of the invocation p, which runs once
PostProcessConc(p) ==
    \/ ConcValidate(p)
    \/ Stat(p)
    \/ Resolve(p)
    \/ Checksum(p)
    \/ Upload(p)
    \/ Fetch(p)
    \/ Merge(p)
    \/ Persist(p)

NextConc == \E p \in Procs : PostProcessConc(p)

\* the two invocations of Procs, each run once, their statements interleaved
\* in any order
SpecConc == Init /\ [][NextConc]_vars

\* the invocation r returned success
Succeeded(r) == r.pc = "done" /\ r.err = "nil" /\ r.artifact # NoUrl

\* both invocations returned success for distinct (version, provider) pairs,
\* and both had fetched the same manifest: neither had written its own when
\* the other fetched
LostUpdateRace(p, q) ==
    /\ p # q
    /\ Succeeded(inv[p])
    /\ Succeeded(inv[q])
    /\ <<inv[p].version, inv[p].provider>> # <<inv[q].version, inv[q].provider>>
    /\ inv[p].fetched = inv[q].fetched

\* C12: nothing coordinates the writes of the manifest: when two concurrent
\* invocations with distinct (version, provider) pairs both fetch the
\* manifest before either writes it and both return success, the manifest
\* persisted in the end is the one the last writer built and holds the entry
\* of only one of them.
C12_LastWriteWins ==
    \A p, q \in Procs :
        LostUpdateRace(p, q) =>
            LET m == Decode(s3Manifest.body) IN
            /\ s3Manifest.exists
            /\ s3Manifest.body \in {Encode(inv[p].manifest), Encode(inv[q].manifest)}
            /\ Published(m, inv[p].version, inv[p].provider)
                   # Published(m, inv[q].version, inv[q].provider)

\* the interleaving of C12 happened: both invocations succeeded, for two
\* providers of one explicit version, and the entry of p1 is lost
C12_Witness ==
    /\ LostUpdateRace("p1", "p2")
    /\ inv["p1"].version = inv["p2"].version
    /\ inv["p1"].cfgVersion # <<>>
    /\ ~Published(Decode(s3Manifest.body), inv["p1"].version, inv["p1"].provider)
    /\ Published(Decode(s3Manifest.body), inv["p2"].version, inv["p2"].provider)

----------------------------------------------------------------------------
(* The upload of the PostProcess that uploads large boxes in parts         *)
(* (post-processor.go:146-238)                                             *)

\* an error of file.Read is injected fewer than this many times per upload
MaxReadErrors == 1

\* info.Size() of the boxes: empty, exactly 100 MiB, one byte more (20 parts
\* of chunkSize and one of one byte) and 105 MiB (21 parts of chunkSize)
Sizes == {0, multipartThreshold, multipartThreshold + 1, 21 * chunkSize}

\* the division without the rounding up
CeilDiv_floor(a, b) == a \div b

\* int(math.Ceil(float64(a) / float64(b)))
CeilDiv(a, b) == (a + b - 1) \div b

\* math.Min(a, b)
Min(a, b) == IF a < b THEN a ELSE b

\* a loop that never gives up
CanRetry_always(errorCount) == TRUE

\* `if errorCount < 10` after a PutPart that failed
CanRetry(errorCount) == errorCount < maxErrorCount

\* p.config.Version of the PostProcess with the part loop
UploadVersion == <<"1", ".", "0", ".", "0">>

\* `return nil, false, err` in the upload
UploadFail(u, e) == [u EXCEPT !.pc = "failed", !.err = e]

\* file, err := os.Open(box)
OpenBox ==
    /\ up.pc = "open"
    /\ \E ok \in BOOLEAN :
        up' = IF ok THEN [up EXCEPT !.pc = "stat", !.pos = 0]
              ELSE UploadFail(up, "Open")
    /\ UNCHANGED <<unitVars, pubVars>>

\* info, err := file.Stat(); size := info.Size()
StatBox ==
    /\ up.pc = "stat"
    /\ \E ok \in BOOLEAN :
        up' = IF ok THEN [up EXCEPT !.pc = "fetch"] ELSE UploadFail(up, "Stat")
    /\ UNCHANGED <<unitVars, pubVars>>

\* manifest, err := p.getManifest(), of the PostProcess with the part loop
FetchManifest ==
    /\ up.pc = "fetch"
    /\ \E code \in GetCodes(s3Manifest), decodeOk \in BOOLEAN :
        LET g == getManifest(s3Manifest, code, decodeOk) IN
        up' = IF g.err # "nil" THEN UploadFail(up, g.err)
              ELSE [up EXCEPT !.pc = "checksum", !.manifest = g.m]
    /\ UNCHANGED <<unitVars, pubVars>>

\* checksum, err := sum256(file): io.Copy reads the shared file from its
\* position to its end
SumFile ==
    /\ up.pc = "checksum"
    /\ \E ok \in BOOLEAN :
        up' = IF ok THEN [up EXCEPT !.pc = "add", !.pos = up.size,
                                    !.hashed = [from |-> up.pos, to |-> up.size]]
              ELSE UploadFail(up, "sum256")
    /\ UNCHANGED <<unitVars, pubVars>>

\* manifest.add(p.config.Version, &Provider{...}) before the upload
AddBox ==
    /\ up.pc = "add"
    /\ LET key == <<BoxDir, UploadVersion, BoxA.base>>
           a   == add(up.manifest, UploadVersion,
                      [Name |-> "virtualbox",
                       Url |-> generateS3Url(Region, Bucket, "", key),
                       ChecksumType |-> "sha256", Checksum |-> sum256("A")])
       IN
       up' = IF a.err # "nil" THEN UploadFail(up, a.err)
             ELSE [up EXCEPT !.pc = "seek", !.manifest = a.m]
    /\ UNCHANGED <<unitVars, pubVars>>

\* file.Seek(0, 0): the rewind before the upload
Rewind ==
    /\ up.pc = "seek"
    /\ \E ok \in BOOLEAN :
        up' = IF ok THEN [up EXCEPT !.pc = "upload", !.pos = 0]
              ELSE UploadFail(up, "Seek")
    /\ UNCHANGED <<unitVars, pubVars>>

\* size > 100*1024*1024: p.s3.InitMulti and the locals of the part loop
InitMulti ==
    /\ up.pc = "upload"
    /\ up.size > multipartThreshold
    /\ \E ok \in BOOLEAN :
        LET totalParts == CeilDiv(up.size, chunkSize) IN
        up' = IF ok
              THEN [up EXCEPT !.pc = "loop", !.totalParts = totalParts,
                              !.totalUploadSize = 0,
                              !.uploadFrom = up.pos,
                              !.parts = [i \in 1..totalParts |-> ZeroPart],
                              !.errorCount = 0, !.partNum = 1]
              ELSE UploadFail(up, "InitMulti")
    /\ UNCHANGED <<unitVars, pubVars>>

\* else: p.s3.PutReader(boxPath, file, size, ...), one put of the whole file
PutReader ==
    /\ up.pc = "upload"
    /\ up.size <= multipartThreshold
    /\ \E ok \in BOOLEAN :
        up' = IF ok THEN [up EXCEPT !.pc = "uploaded", !.puts = @ + 1, !.pos = up.size,
                                    !.uploadFrom = up.pos]
              ELSE UploadFail([up EXCEPT !.puts = @ + 1, !.uploadFrom = up.pos],
                              "PutReader")
    /\ UNCHANGED <<unitVars, pubVars>>

\* one pass of the body of `for partNum := 1; partNum <= totalParts; partNum++`:
\* the position, the read (whose error is not looked at), PutPart, and then
\* either the retry (sleep, seek back, partNum--) or the return, or the next
\* part
UploadPart ==
    /\ up.pc = "loop"
    /\ up.partNum <= up.totalParts
    /\ \E readOk \in BOOLEAN, putOk \in BOOLEAN :
        /\ ~readOk => up.readErrors < MaxReadErrors
        /\ LET filePos   == up.pos
               partSize  == Min(chunkSize, up.size - filePos)
               readBytes == IF readOk THEN partSize ELSE 0
               part      == IF putOk
                            THEN [N |-> up.partNum, Size |-> partSize,
                                  from |-> filePos, read |-> readOk]
                            ELSE ZeroPart
               u == [up EXCEPT
                        !.parts[up.partNum] = part,
                        !.attempts = @ + 1,
                        !.readErrors = IF readOk THEN @ ELSE @ + 1,
                        !.last = [partNum |-> up.partNum, filePos |-> filePos,
                                  partSize |-> partSize, readBytes |-> readBytes,
                                  ok |-> putOk, failuresBefore |-> up.partFailures,
                                  errorsBefore |-> up.errorCount]]
           IN
           up' = IF ~putOk THEN
                     IF CanRetry(up.errorCount)
                     THEN [u EXCEPT !.errorCount = @ + 1,
                                    !.slept = @ + retryDelay,
                                    !.pos = filePos,
                                    !.partFailures = @ + 1]
                     ELSE UploadFail([u EXCEPT !.pos = filePos + readBytes,
                                               !.partFailures = @ + 1], "PutPart")
                 ELSE [u EXCEPT !.totalUploadSize = @ + part.Size,
                                !.pos = filePos + readBytes,
                                !.partNum = @ + 1,
                                !.partFailures = 0,
                                !.acked = Append(@, part)]
    /\ UNCHANGED <<unitVars, pubVars>>

\* a completion that does not wait for the last part
Complete_early ==
    /\ up.pc = "loop"
    /\ up.partNum >= up.totalParts
    /\ \E ok \in BOOLEAN :
        up' = IF ok THEN [up EXCEPT !.pc = "uploaded", !.completed = Append(@, up.parts)]
              ELSE UploadFail([up EXCEPT !.completed = Append(@, up.parts)], "Complete")
    /\ UNCHANGED <<unitVars, pubVars>>

\* multi.Complete(parts), after the loop
Complete ==
    /\ up.pc = "loop"
    /\ up.partNum > up.totalParts
    /\ \E ok \in BOOLEAN :
        up' = IF ok THEN [up EXCEPT !.pc = "uploaded", !.completed = Append(@, up.parts)]
              ELSE UploadFail([up EXCEPT !.completed = Append(@, up.parts)], "Complete")
    /\ UNCHANGED <<unitVars, pubVars>>

\* p.putManifest(manifest) after the upload, and the return of the Artifact
PutManifest ==
    /\ up.pc = "uploaded"
    /\ \E ok \in BOOLEAN :
        /\ up' = IF ok THEN [up EXCEPT !.pc = "done", !.manifestPuts = @ + 1]
                 ELSE UploadFail([up EXCEPT !.manifestPuts = @ + 1], "Put")
        /\ s3Manifest' = IF ok THEN [exists |-> TRUE, body |-> Encode(up.manifest)]
                         ELSE s3Manifest
        /\ s3Meta' = IF ok THEN ManifestMeta(s3Meta, config) ELSE s3Meta
    /\ UNCHANGED <<unitVars, s3Boxes, inv, started, config>>

\* PostProcess has accepted the artifact and is about to open the box file
InitUpload ==
    /\ manifest = EmptyManifest(BoxName)
    /\ before = EmptyManifest(BoxName)
    /\ call = NoCall
    /\ s3Manifest = NoObject
    /\ s3Boxes = <<>>
    /\ inv = [p \in Procs |-> IdleInv]
    /\ started = 0
    /\ config = DefaultConfig
    /\ s3Meta = NoMeta
    /\ \E size \in Sizes : up = [IdleUpload EXCEPT !.pc = "open", !.size = size]

NextMulti ==
    \/ OpenBox
    \/ StatBox
    \/ FetchManifest
    \/ SumFile
    \/ AddBox
    \/ Rewind
    \/ InitMulti
    \/ PutReader
    \/ UploadPart
    \/ Complete
    \/ PutManifest

\* one publish of a box into an empty bucket by the PostProcess with the part
\* loop, with any answers of the file and the store
SpecMulti == InitUpload /\ [][NextMulti]_vars

\* C19: the retries of the part loop are counted per part: the upload is
\* given up only on a part that has failed after its 10 retries, each retry
\* comes after a delay of 5 s, and failures of other parts take nothing from
\* the retries of a part.
C19_PerPartRetries ==
    /\ up.slept = retryDelay * up.errorCount
    /\ up.err = "PutPart" => up.last.failuresBefore = maxErrorCount
    /\ (up.last.partNum # 0 /\ ~up.last.ok /\ up.last.failuresBefore < maxErrorCount)
           => up.pc = "loop" /\ up.partNum = up.last.partNum

\* C20: every attempt of part k, first or retry, reads the file from offset
\* (k-1)*chunkSize and sends the bytes of part k under the number k; no
\* attempt sends bytes of another part.
C20_AttemptReadsItsPart ==
    /\ up.last.partNum # 0 =>
        /\ up.last.filePos = (up.last.partNum - 1) * chunkSize
        /\ up.last.partSize = Min(chunkSize, up.size - (up.last.partNum - 1) * chunkSize)
        /\ up.last.readBytes = up.last.partSize
    /\ \A k \in 1..Len(up.parts) :
           up.parts[k].N # 0 =>
               /\ up.parts[k].N = k
               /\ up.parts[k].from = (k - 1) * chunkSize
               /\ up.parts[k].read

\* C21: the completion call of the part loop is issued once, after every part
\* 1..totalParts was acknowledged; it lists every part once, in increasing
\* number, each with the result of its acknowledged attempt, whatever
\* failed and was retried before.
C21_CompleteOnceInOrder ==
    /\ Len(up.completed) <= 1
    /\ (up.pc \in {"uploaded", "done"} /\ up.size > multipartThreshold)
           => Len(up.completed) = 1
    /\ Len(up.completed) = 1 =>
           LET listed == up.completed[1] IN
           /\ up.partNum = up.totalParts + 1
           /\ Len(up.acked) = up.totalParts
           /\ Len(listed) = up.totalParts
           /\ \A k \in 1..up.totalParts :
                  listed[k].N = k /\ listed[k] = up.acked[k]

\* a completion that was issued after parts had failed and were retried
C21_Witness ==
    /\ up.pc = "done"
    /\ Len(up.completed) = 1
    /\ up.errorCount >= 2
    /\ up.completed[1][up.totalParts].N = up.totalParts

\* C22: when a part fails and no retry is left, the publish returns the error
\* of that part, issues no completion call and writes no manifest.
C22_ExhaustedIsFatal ==
    LET exhausted == /\ up.last.partNum # 0
                     /\ ~up.last.ok
                     /\ \/ up.last.errorsBefore >= maxErrorCount
                        \/ up.last.failuresBefore >= maxErrorCount
    IN  exhausted =>
            /\ up.pc = "failed"
            /\ up.err = "PutPart"
            /\ up.completed = <<>>
            /\ up.manifestPuts = 0
            /\ s3Manifest = NoObject

\* one part has used up all the retries and has failed once more
C22_Witness ==
    /\ up.pc = "failed"
    /\ up.err = "PutPart"
    /\ up.last.failuresBefore = maxErrorCount
    /\ up.last.partNum > 1

\* C23: the size of the file alone selects the path of the upload: above
\* 100 MiB the part loop, in ceil(size / 5 MiB) parts of 5 MiB each but for
\* a last part that may be shorter; at 100 MiB or below, the empty file
\* included, one put of the whole file.
C23_PathBySize ==
    /\ up.puts > 0 =>
           /\ up.size <= multipartThreshold
           /\ up.puts = 1
           /\ up.totalParts = 0 /\ up.acked = <<>> /\ up.completed = <<>>
    /\ up.totalParts > 0 =>
           /\ up.size > multipartThreshold
           /\ up.puts = 0
           /\ up.totalParts * chunkSize >= up.size
           /\ (up.totalParts - 1) * chunkSize < up.size
           /\ \A k \in 1..Len(up.acked) :
                  /\ up.acked[k].N = k
                  /\ k < up.totalParts => up.acked[k].Size = chunkSize
                  /\ k = up.totalParts =>
                         /\ up.acked[k].Size \in 1..chunkSize
                         /\ up.readErrors = 0 =>
                                up.acked[k].Size = up.size - (k - 1) * chunkSize
    /\ up.pc \in {"uploaded", "done"} =>
           /\ up.size <= multipartThreshold => up.puts = 1
           /\ up.size > multipartThreshold
                  => Len(up.acked) = CeilDiv(up.size, chunkSize)

\* a file one byte above 100 MiB went up in 21 parts, the last of one byte
C23_Witness ==
    /\ up.pc = "done"
    /\ up.size = multipartThreshold + 1
    /\ Len(up.acked) = 21
    /\ up.acked[21].Size = 1

\* C26: no failure is swallowed: a publish that returns success has had no
\* failure of an underlying operation, and no part was uploaded from bytes
\* that were not read from the file.
C26_NoFailureSwallowed ==
    /\ up.pc = "done" => up.readErrors = 0
    /\ \A k \in 1..Len(up.acked) : up.acked[k].read

\* C27: the upload reads the file from offset 0 to its end after the checksum
\* was computed over the same bytes, so the bytes uploaded are the bytes
\* hashed.
C27_UploadReadsWholeFile ==
    up.pc \in {"uploaded", "done"} =>
        /\ up.hashed = [from |-> 0, to |-> up.size]
        /\ up.uploadFrom = 0
        /\ up.pos = up.size
        /\ \A k \in 1..Len(up.acked) :
               up.acked[k].from = (k - 1) * chunkSize /\ up.acked[k].read

-----------------------------------------------------------------------------
(* One PostProcess under every combination of the optional settings        *)

\* a host name for the cloudfront setting
CdnHost == "cdn.example.com"

\* the optional settings as the template gives them: each one unset or set
Settings ==
    [SignedExpiry : {0, 60}, CloudFront : {"", CdnHost}, ACL : {"", "private"},
     StorageClass : {"", "STANDARD_IA"}]

\* an empty bucket and a PostProcessor that Configure has set up from one of
\* Settings
InitConfig ==
    /\ manifest = EmptyManifest(BoxName)
    /\ before = EmptyManifest(BoxName)
    /\ call = NoCall
    /\ s3Manifest = NoObject
    /\ s3Boxes = <<>>
    /\ inv = [p \in Procs |-> IdleInv]
    /\ started = 0
    /\ config \in {Configure(c) : c \in Settings}
    /\ s3Meta = NoMeta
    /\ up = IdleUpload

NextConfig == \E p \in SeqProcs : PostProcessConc(p)

\* one PostProcess invocation, run once
SpecConfig == InitConfig /\ [][NextConfig]_vars

\* the form a publish under configuration c would use for all its urls when
\* the forms exclude each other
FormOf(c) ==
    IF c.SignedExpiry # 0 THEN "presigned"
    ELSE IF c.CloudFront # "" THEN "cloudfront" ELSE "s3"

\* C24: within one publish the url of the box in the manifest and the url of
\* the manifest in the result have one and the same form, plain, cloudfront
\* or presigned; with cloudfront and signed_expiry both set no publish has
\* one url of the cloudfront form and the other presigned.
C24_OneUrlForm ==
    \A p \in SeqProcs :
        Succeeded(inv[p]) =>
            /\ inv[p].url.form = inv[p].artifact.form
            /\ inv[p].url.form = FormOf(config)

\* the box upload of the invocation r has succeeded
BoxUploaded(r) ==
    /\ \E i \in 1..Len(r.trace) : r.trace[i] = "upload"
    /\ r.pc # "upload"
    /\ r.failedAt # "upload"

\* C25: after a successful box upload the object is at the key
\* {box_dir}/{version}/{base name of the file} with the ACL and the storage
\* class of the configuration, public-read and STANDARD when they were not
\* set; the manifest is written with the same ACL and the content type
\* application/json.
C25_ObjectAttributes ==
    \A p \in SeqProcs :
        LET r   == inv[p]
            key == <<BoxDir, r.version, r.box.base>>
        IN
        \E c \in Settings :
            LET acl == IF c.ACL = "" THEN "public-read" ELSE c.ACL
                sc  == IF c.StorageClass = "" THEN "STANDARD" ELSE c.StorageClass
            IN
            /\ config = Configure(c)
            /\ BoxUploaded(r) =>
                   /\ key \in DOMAIN s3Boxes
                   /\ s3Boxes[key] = r.content
                   /\ DOMAIN s3Meta.boxes = DOMAIN s3Boxes
                   /\ s3Meta.boxes[key] = [ACL |-> acl, StorageClass |-> sc]
            /\ Succeeded(r) =>
                   /\ s3Manifest.exists
                   /\ s3Meta.manifest = [ACL |-> acl, ContentType |-> "application/json"]

\* a publish with neither acl nor storage_class set has succeeded
C25_Witness ==
    \E p \in SeqProcs :
        /\ Succeeded(inv[p])
        /\ config = Configure(ZeroConfig)
        /\ s3Meta.boxes[BoxPath(inv[p].version, inv[p].box)].ACL = "public-read"
        /\ s3Meta.manifest.ACL = "public-read"

-----------------------------------------------------------------------------
(* The JSON document of a manifest, written and read back                  *)

\* the most Version entries, and the most Providers of one entry, of the
\* manifests that are written and read back
MaxJsonVersions == 2

MaxJsonProviders == 2

\* the sequences over S of length up to n
SeqsUpTo(S, n) == UNION {[1..k -> S] : k \in 0..n}

\* *Provider values of those manifests
JsonProviders ==
    {[Name |-> "virtualbox", Url |-> "u1", ChecksumType |-> "sha256", Checksum |-> "c1"],
     [Name |-> "vmware_desktop", Url |-> "u2", ChecksumType |-> "sha256", Checksum |-> "c2"]}

\* *Version values, also with the same provider twice and with no provider
JsonVersions ==
    [Version : {<<"1", ".", "0", ".", "0">>, <<"1", ".", "0">>},
     Providers : SeqsUpTo(JsonProviders, MaxJsonProviders)]

\* Manifest values, whether add could have built them or not
JsonManifests ==
    [Name : {BoxName, ""}, Versions : SeqsUpTo(JsonVersions, MaxJsonVersions)]

InitJson ==
    /\ manifest \in JsonManifests
    /\ before = manifest
    /\ call = NoCall
    /\ InitPublishVars

\* putManifest encodes the manifest and getManifest decodes that document
RoundTrip ==
    /\ call.op = "none"
    /\ before' = manifest
    /\ manifest' = Decode(Encode(manifest))
    /\ call' = [NoCall EXCEPT !.op = "roundtrip"]
    /\ UNCHANGED <<pubVars, up>>

NextJson == RoundTrip

SpecJson == InitJson /\ [][NextJson]_vars

\* C28: a manifest encoded as putManifest does and decoded as getManifest
\* does is structurally equal to the original: same name, same versions in
\* the same order, same providers in the same order with the same four
\* fields; also when it has no versions.
C28_RoundTrip ==
    call.op = "roundtrip" =>
        /\ manifest.Name = before.Name
        /\ Len(manifest.Versions) = Len(before.Versions)
        /\ \A i \in 1..Len(before.Versions) :
               LET v == before.Versions[i]
                   w == manifest.Versions[i]
               IN
               /\ w.Version = v.Version
               /\ Len(w.Providers) = Len(v.Providers)
               /\ \A j \in 1..Len(v.Providers) :
                      /\ w.Providers[j].Name = v.Providers[j].Name
                      /\ w.Providers[j].Url = v.Providers[j].Url
                      /\ w.Providers[j].ChecksumType = v.Providers[j].ChecksumType
                      /\ w.Providers[j].Checksum = v.Providers[j].Checksum
        /\ manifest = before

\* a manifest of two versions, one without providers and one with two, was
\* written and read back
C28_Witness ==
    /\ call.op = "roundtrip"
    /\ Len(before.Versions) = 2
    /\ Len(before.Versions[1].Providers) = 0
    /\ Len(before.Versions[2].Providers) = 2
    /\ before.Versions[2].Providers[1] # before.Versions[2].Providers[2]

-----------------------------------------------------------------------------
(* The persisted manifest and the boxes after publishes run in sequence     *)

\* no invocation is between its call and its return
Quiescent == \A p \in SeqProcs : inv[p].pc \in {"idle", "done"}

\* the Provider entries of the persisted manifest
StoredProviders ==
    IF ~s3Manifest.exists THEN {}
    ELSE LET m == Decode(s3Manifest.body) IN
         UNION {Range(m.Versions[i].Providers) : i \in 1..Len(m.Versions)}

\* C29: after any sequence of publishes run one after another, every Provider
\* entry of the persisted manifest has a box object at the key of its url, and
\* its checksum is the digest of the bytes stored at that key now.
C29_ManifestMatchesStore ==
    Quiescent =>
        \A q \in StoredProviders :
            /\ q.Url.key \in DOMAIN s3Boxes
            /\ q.Checksum = sum256(s3Boxes[q.Url.key])

\* C30: a publish that returns an error leaves the persisted manifest as it
\* was when the publish started, whatever step failed; a manifest that did
\* not exist is not created.
C30_ErrorKeepsManifest ==
    \A p \in SeqProcs :
        (inv[p].pc = "done" /\ inv[p].err # "nil") =>
            /\ s3Manifest = inv[p].startManifest
            /\ ~inv[p].startManifest.exists => ~s3Manifest.exists

\* a publish has failed after its upload, at the fetch of the manifest, in a
\* bucket that has no manifest
C30_Witness ==
    \E p \in SeqProcs :
        /\ inv[p].pc = "done"
        /\ inv[p].failedAt = "fetch"
        /\ HasCall(inv[p], "Upload")
        /\ ~inv[p].startManifest.exists
        /\ ~s3Manifest.exists

-----------------------------------------------------------------------------
(* getNextVersion at the end of the range of the minor number              *)

\* version strings of the manifests of SpecNext: plain versions, a
\* pre-release, a string semver.Make rejects, and 1.18446744073709551615.0
NextStrings ==
    { <<"1", ".", "0", ".", "0">>,
      <<"1", ".", "2", ".", "7">>,
      <<"1", ".", "2", ".", "7", "-", "a">>,
      <<"1", ".", "2">>,
      <<"1", ".">> \o MaxUint64Digits \o <<".", "0">> }

\* manifests with these version strings in any order, and getNextVersion
\* called on them
NextNext ==
    \/ /\ Len(manifest.Versions) < MaxVersionEntries
       /\ \E version \in NextStrings : CallAdd(version, VersionProvider)
    \/ CallGetNextVersion

SpecNext == InitManifest /\ [][NextNext]_vars

\* C31: the version getNextVersion returns is greater, in the order of
\* semantic versions, than every version of the manifest that parses, and
\* is none of the version strings of the manifest.
C31_NextAboveAll ==
    call.op = "getNextVersion" =>
        LET next == Make(call.result) IN
        /\ ~next.err
        /\ \A i \in ParseableIdx(before) :
               LT(Make(before.Versions[i].Version).v, next.v)
        /\ call.result \notin VersionSet(before)

-----------------------------------------------------------------------------
(* The history of the persisted manifest                                   *)

\* manifest new holds every entry of manifest old, with the same fields and
\* at the same position
Extends(old, new) ==
    /\ Len(old.Versions) <= Len(new.Versions)
    /\ \A i \in 1..Len(old.Versions) :
           /\ new.Versions[i].Version = old.Versions[i].Version
           /\ IsPrefix(old.Versions[i].Providers, new.Versions[i].Providers)

\* C32: under publishes that run one after another the persisted manifest
\* only grows: every write of it keeps each (version, provider) entry that
\* was in it, with the same url, checksum_type and checksum and at the same
\* position, and every entry has the checksum_type sha256.
C32_ManifestOnlyGrows ==
    [][ /\ s3Manifest.exists =>
            /\ s3Manifest'.exists
            /\ Extends(Decode(s3Manifest.body), Decode(s3Manifest'.body))
        /\ s3Manifest'.exists =>
            \A i \in 1..Len(Decode(s3Manifest'.body).Versions) :
                \A j \in 1..Len(Decode(s3Manifest'.body).Versions[i].Providers) :
                    Decode(s3Manifest'.body).Versions[i].Providers[j].ChecksumType
                        = "sha256"
      ]_vars

\* a publish has written a manifest over one that held entries: it added a
\* provider to a version that was there and kept the earlier one
C32_Witness ==
    \E p \in SeqProcs :
        /\ Succeeded(inv[p])
        /\ inv[p].startManifest.exists
        /\ Len(Decode(inv[p].startManifest.body).Versions) = 1
        /\ s3Manifest # inv[p].startManifest
        /\ Len(Decode(s3Manifest.body).Versions) = 1
        /\ Len(Decode(s3Manifest.body).Versions[1].Providers) = 2

-----------------------------------------------------------------------------
(* Two invocations that both resolve their version                         *)

\* the invocation r has no explicit version and has fetched the manifest at
\* the fetch step
FetchedAfterResolve(r) ==
    /\ r.cfgVersion = <<>>
    /\ r.version # <<>>
    /\ \/ r.pc \in {"merge", "persist"}
       \/ r.pc = "done" /\ r.failedAt \in {"", "merge", "persist"}

\* C33: for two concurrent publishes without explicit version, the version
\* an invocation resolved is absent from the manifest it fetches later, in
\* every interleaving; the two never publish under the same version string
\* and neither overwrites the box of the other.
C33_ResolvedVersionStaysNew ==
    \A p, q \in Procs :
        (p # q /\ inv[p].cfgVersion = <<>> /\ inv[q].cfgVersion = <<>>) =>
            /\ FetchedAfterResolve(inv[p]) =>
                   inv[p].version \notin VersionSet(inv[p].fetched)
            /\ (Succeeded(inv[p]) /\ Succeeded(inv[q])) =>
                   /\ inv[p].version # inv[q].version
                   /\ s3Boxes[BoxPath(inv[p].version, inv[p].box)] = inv[p].content

-----------------------------------------------------------------------------
(* The end of the part loop                                                *)

\* the box is empty or has one byte more than 100 MiB (21 parts)
InitLoop == InitUpload /\ up.size \in {0, multipartThreshold + 1}

\* the publish with the part loop when PostProcess keeps running: every call
\* on the file and on the store returns, and the next statement is executed
SpecMultiFair == InitLoop /\ [][NextMulti]_vars /\ WF_vars(NextMulti)

\* C34: the part loop always ends, whatever the store answers: with the
\* completion call after totalParts acknowledged parts or with a fatal
\* error, after at most totalParts + 11 attempts to upload a part; the
\* publish then runs to its return.
C34_LoopTerminates ==
    /\ [](up.attempts <= up.totalParts + maxErrorCount + 1)
    /\ []((up.totalParts > 0 /\ up.pc # "loop") =>
            \/ Len(up.completed) = 1 /\ Len(up.acked) = up.totalParts
            \/ up.pc = "failed" /\ up.err = "PutPart" /\ up.completed = <<>>)
    /\ <>(up.pc \in {"done", "failed"})

\* the loop has ended with the completion call after all the retries it
\* allows were used
C34_Witness ==
    /\ up.pc = "done"
    /\ Len(up.completed) = 1
    /\ up.errorCount = maxErrorCount
    /\ up.attempts = up.totalParts + maxErrorCount

\* the sum of the sizes of the parts ps[i..]
RECURSIVE SumSizes(_, _)
SumSizes(ps, i) == IF i > Len(ps) THEN 0 ELSE ps[i].Size + SumSizes(ps, i + 1)

\* C35: at the completion call the acknowledged parts cover the file exactly:
\* part k holds the bytes from (k-1)*chunkSize up to min(k*chunkSize, size),
\* the ranges follow each other without gap or overlap, and the running
\* total, to which failed attempts add nothing, is the sum of the sizes of
\* the acknowledged parts and equals the size of the file.
C35_PartsCoverFile ==
    /\ up.totalUploadSize = SumSizes(up.acked, 1)
    /\ Len(up.completed) = 1 =>
           /\ \A k \in 1..Len(up.acked) :
                  /\ up.acked[k].read
                  /\ up.acked[k].from = (k - 1) * chunkSize
                  /\ up.acked[k].from + up.acked[k].Size = Min(k * chunkSize, up.size)
           /\ up.totalUploadSize = up.size

====
